---- MODULE Spec2Model ----
(***************************************************************************)
(* ADABRA buzzer server (src/server.js, the current server: lines 516 to   *)
(* 1413).  The registry `rooms`, the per-connection `socket.data`, the     *)
(* socket.io room membership of each socket, the wall clock and the events *)
(* emitted by the handler that ran last.                                   *)
(*                                                                         *)
(* JavaScript strings that the code trims, upper-cases or measures (room   *)
(* codes, team ids, team names) are sequences of one-character strings;    *)
(* opaque strings (player ids, host keys, messages) are TLA+ strings.      *)
(* null / undefined are "" for opaque strings, <<>> for character          *)
(* sequences and -1 for timestamps.                                        *)
(*                                                                         *)
(* Rooms exist from the initial state on (GET /api/rooms/create ran before *)
(* the first event).  A behaviour spans seconds; the reaper, which deletes *)
(* rooms idle for minutes, runs in SpecReaper, whose rooms are minutes old *)
(* in the initial state.                                                   *)
(***************************************************************************)
EXTENDS Integers, Sequences, FiniteSets, TLC

VARIABLES rooms, sockets, now, out

vars == <<rooms, sockets, now, out>>

(* ------------------------------ bounds -------------------------------- *)

\* largest team count a host asks for (the code allows up to maxTeams)
MaxCount == 3
\* the clock stops advancing at this instant (ms)
MaxNow == 2000
\* membersCount, roundNumber and |score| are capped in the guards
MaxMembers == 3
MaxRound == 1
MaxScore == 1

(* ------------------------- program constants -------------------------- *)

TICK_MS == 200
maxTeams == 6
DefaultDurationMs == 15000
MaxSeconds == 600
MaxDelta == 100
MinNameLen == 2
MaxNameLen == 16

(* ------------------------------ strings ------------------------------- *)

Lower == <<"a", "b", "c", "d", "w", "x", "y", "z">>
Upper == <<"A", "B", "C", "D", "W", "X", "Y", "Z">>

\* String.prototype.toUpperCase on the letters the model uses
toUpperCase(str) ==
  [i \in DOMAIN str |->
     IF \E k \in DOMAIN Lower : Lower[k] = str[i]
       THEN Upper[CHOOSE k \in DOMAIN Lower : Lower[k] = str[i]]
       ELSE str[i]]

RECURSIVE trimStart(_)
trimStart(str) ==
  IF str # <<>> /\ Head(str) = " " THEN trimStart(Tail(str)) ELSE str

RECURSIVE trimEnd(_)
trimEnd(str) ==
  IF str # <<>> /\ str[Len(str)] = " "
    THEN trimEnd(SubSeq(str, 1, Len(str) - 1))
    ELSE str

\* String.prototype.trim
trim(str) == trimEnd(trimStart(str))

\* str.replace(/\s+/g, " "): every run of blanks becomes one blank
RECURSIVE collapseSpaces(_)
collapseSpaces(str) ==
  IF Len(str) < 2 THEN str
  ELSE IF str[1] = " " /\ str[2] = " " THEN collapseSpaces(Tail(str))
  ELSE <<str[1]>> \o collapseSpaces(Tail(str))

Digits == <<"1", "2", "3", "4", "5", "6", "7", "8", "9">>

\* String(i) for a team number
TeamId(i) == <<Digits[i]>>

\* `Team ${t}`
DefaultName(t) == <<"T", "e", "a", "m", " ">> \o t

(* ------------------------------ registry ------------------------------ *)

RoomA == <<"A", "B", "C", "D">>
RoomW == <<"W", "X", "Y", "Z">>

\* randomString(24): an opaque secret, one per room
HostKeyOf(code) == IF code = RoomA THEN "keyA" ELSE "keyW"

makeTeams(count) ==
  [t \in {TeamId(i) : i \in 1..count} |-> [id |-> t, name |-> DefaultName(t), score |-> 0]]

EmptyMap == [x \in {} |-> <<>>]

createRoom(code) ==
  [ roomCode |-> code,
    hostKey |-> HostKeyOf(code),
    createdAt |-> now,
    lastActivityAt |-> now,
    timeUpAt |-> -1,
    membersCount |-> 0,
    teamTaken |-> EmptyMap,
    teamNameLocked |-> {},
    phase |-> "lobby",
    roundNumber |-> 0,
    durationMs |-> DefaultDurationMs,
    remainingMs |-> DefaultDurationMs,
    timerRunning |-> FALSE,
    timerLastTickAt |-> -1,
    lockedBySocketId |-> "",
    lockedByTeamId |-> <<>>,
    lastBuzz |-> <<>>,
    lockedByPlayerId |-> "",
    firstBuzzTeamId |-> <<>>,
    gameOver |-> FALSE,
    winnerTeamId |-> <<>>,
    winnerText |-> <<>>,
    teams |-> makeTeams(2),
    lockedOutTeams |-> {},
    playerTeams |-> EmptyMap,
    fairPlayEnabled |-> TRUE,
    focusLockedTeams |-> {},
    falseStartTeams |-> {},
    kickedPlayers |-> {} ]

TeamOrder(room) == [i \in 1..Cardinality(DOMAIN room.teams) |-> TeamId(i)]

publicRoomState(room) ==
  [ roomCode |-> room.roomCode,
    membersCount |-> room.membersCount,
    tablesChosenCount |-> Cardinality(DOMAIN room.teamTaken),
    phase |-> room.phase,
    roundNumber |-> room.roundNumber,
    durationMs |-> room.durationMs,
    remainingMs |-> room.remainingMs,
    timerRunning |-> room.timerRunning,
    timeUpAt |-> room.timeUpAt,
    lockedBySocketId |-> room.lockedBySocketId,
    lockedByTeamId |-> room.lockedByTeamId,
    lastBuzz |-> room.lastBuzz,
    lockedOutTeams |-> room.lockedOutTeams,
    teams |-> room.teams,
    takenTeams |-> room.teamTaken,
    teamNameLocked |-> room.teamNameLocked,
    firstBuzzTeamId |-> room.firstBuzzTeamId,
    gameOver |-> room.gameOver,
    winnerTeamId |-> room.winnerTeamId,
    winnerText |-> room.winnerText,
    fairPlayEnabled |-> room.fairPlayEnabled,
    focusLockedTeams |-> room.focusLockedTeams,
    falseStartTeams |-> room.falseStartTeams ]

(* ------------------------------ emission ------------------------------ *)

\* socket.emit(ev, arg)
ToSocket(s, ev, arg) == [to |-> s, ev |-> ev, arg |-> arg]
\* io.to(roomCode).emit(ev, arg)
ToRoom(code, ev, arg) == [room |-> code, ev |-> ev, arg |-> arg]

emitRoomState(room) == ToRoom(room.roomCode, "roomState", publicRoomState(room))

Kicked(s, code) == ToSocket(s, "kicked", [roomCode |-> code, reason |-> "REMOVED_BY_HOST"])
ErrorMsg(s, text) == ToSocket(s, "errorMsg", text)
BuzzRejected(s, reason) == ToSocket(s, "buzzRejected", [reason |-> reason])
TeamSet(s, teamId) == ToSocket(s, "teamSet", [teamId |-> teamId, locked |-> TRUE])

\* `out` holds the events of the handler that ran last while an observer is
\* attached; Unobserved (set once, in the initial state) leaves them unrecorded
Unobserved == <<[unobserved |-> TRUE]>>

Emitted(events) == IF out = Unobserved THEN Unobserved ELSE events

(* ------------------------------ helpers ------------------------------- *)

\* the sockets that may be connected at the same time
SocketIds == {1, 2, 3}

FreshData ==
  [connected |-> TRUE, roomCode |-> <<>>, isHost |-> FALSE, playerId |-> "",
   teamId |-> <<>>, joined |-> <<>>]

Gone == [FreshData EXCEPT !.connected = FALSE]

touchRoom(room) == [room EXCEPT !.lastActivityAt = now]

isKicked(s, room) ==
  sockets[s].playerId # "" /\ sockets[s].playerId \in room.kickedPlayers

isHost(s) == sockets[s].isHost

Get(map, key, default) == IF key \in DOMAIN map THEN map[key] ELSE default

Put(map, key, val) == [k \in DOMAIN map \cup {key} |-> IF k = key THEN val ELSE map[k]]

Delete(map, key) == [k \in DOMAIN map \ {key} |-> map[k]]

\* resetToLobby without its timerRunning line
resetToLobbyTimerLeft(room) ==
  [room EXCEPT
     !.phase = "lobby",
     !.timerLastTickAt = -1,
     !.remainingMs = room.durationMs,
     !.lockedBySocketId = "",
     !.lockedByTeamId = <<>>,
     !.lastBuzz = <<>>,
     !.firstBuzzTeamId = <<>>,
     !.lockedByPlayerId = "",
     !.gameOver = FALSE,
     !.winnerTeamId = <<>>,
     !.winnerText = <<>>,
     !.lockedOutTeams = {},
     !.falseStartTeams = {},
     !.focusLockedTeams = {}]

resetToLobby(room) ==
  [room EXCEPT
     !.phase = "lobby",
     !.timerRunning = FALSE,
     !.timerLastTickAt = -1,
     !.remainingMs = room.durationMs,
     !.lockedBySocketId = "",
     !.lockedByTeamId = <<>>,
     !.lastBuzz = <<>>,
     !.firstBuzzTeamId = <<>>,
     !.lockedByPlayerId = "",
     !.gameOver = FALSE,
     !.winnerTeamId = <<>>,
     !.winnerText = <<>>,
     !.lockedOutTeams = {},
     !.falseStartTeams = {},
     !.focusLockedTeams = {}]

\* requireRoom: the error it emits, or "" when it returns the room
requireRoomError(s) ==
  IF sockets[s].roomCode = <<>> THEN "Join a room first."
  ELSE IF sockets[s].roomCode \notin DOMAIN rooms THEN "Room not found."
  ELSE ""

\* the handler of socket s ends: the room and socket.data it leaves, the events it emitted
Result(s, room, data, events) ==
  /\ rooms' = [rooms EXCEPT ![room.roomCode] = room]
  /\ sockets' = [sockets EXCEPT ![s] = data]
  /\ out' = Emitted(events)
  /\ UNCHANGED now

\* the handler ends having changed nothing but what it emitted
Reject(events) ==
  /\ out' = Emitted(events)
  /\ UNCHANGED <<rooms, sockets, now>>

\* the room of socket s (requireRoom succeeded)
RoomOf(s) == rooms[sockets[s].roomCode]

(* ------------------------- connection, join --------------------------- *)

\* io.on("connection"): a new socket, socket.data empty
Connect(s) ==
  /\ ~sockets[s].connected
  /\ sockets' = [sockets EXCEPT ![s] = FreshData]
  /\ out' = Emitted(<<>>)
  /\ UNCHANGED <<rooms, now>>

\* "refresh-safe team restore", the same lines in joinRoom and rejoinRoom:
\* the room, the socket.data and the events they leave
restoreTeam(s, room, data, kickedArg) ==
  LET existingTeam == Get(room.playerTeams, data.playerId, <<>>) IN
  IF existingTeam = <<>> THEN [room |-> room, data |-> data, events |-> <<>>]
  ELSE IF data.playerId \in room.kickedPlayers
    THEN [room |-> [room EXCEPT !.playerTeams = Delete(@, data.playerId)],
          data |-> [data EXCEPT !.teamId = <<>>],
          events |-> <<Kicked(s, kickedArg)>>]
    ELSE [room |-> room,
          data |-> [data EXCEPT !.teamId = existingTeam],
          events |-> <<TeamSet(s, existingTeam)>>]

\* joinRoom turns the player away before it attaches the socket
joinRefused(room, playerId) == playerId # "" /\ playerId \in room.kickedPlayers

\* socket.data once joinRoom has attached the socket to the room `code`
joinData(s, room, hostKey, playerId) ==
  [sockets[s] EXCEPT
     !.joined = room.roomCode,
     !.roomCode = room.roomCode,
     !.isHost = (hostKey # "" /\ hostKey = room.hostKey),
     !.playerId = IF playerId # "" THEN playerId ELSE @]

joinRoom(s, roomCode, hostKey, playerId) ==
  /\ sockets[s].connected
  /\ LET code == toUpperCase(trim(roomCode)) IN
     IF code = <<>> THEN Reject(<<ErrorMsg(s, "Room code is required.")>>)
     \* the message names the code: `Room "${code}" does not exist.`
     ELSE IF code \notin DOMAIN rooms THEN Reject(<<ErrorMsg(s, "Room does not exist.")>>)
     ELSE IF joinRefused(rooms[code], playerId) THEN Reject(<<Kicked(s, code)>>)
     ELSE
       LET data == joinData(s, rooms[code], hostKey, playerId)
           room == [rooms[code] EXCEPT !.membersCount = @ + 1]
           r == IF ~data.isHost /\ data.playerId # ""
                  THEN restoreTeam(s, room, data, code)
                  ELSE [room |-> room, data |-> data, events |-> <<>>]
       IN /\ rooms[code].membersCount < MaxMembers
          /\ Result(s, r.room, r.data,
                    <<ToSocket(s, "joinedRoom", [roomCode |-> code, isHost |-> data.isHost])>>
                      \o r.events \o <<emitRoomState(r.room)>>)

\* socket.data once rejoinRoom has attached the socket to the room
rejoinData(s, room, playerId) ==
  [sockets[s] EXCEPT
     !.joined = room.roomCode,
     !.roomCode = room.roomCode,
     !.playerId = playerId]

rejoinRoom(s, roomCode, playerId) ==
  /\ sockets[s].connected
  /\ LET code == toUpperCase(trim(roomCode)) IN
     IF code = <<>> \/ playerId = "" THEN Reject(<<>>)
     ELSE IF code \notin DOMAIN rooms THEN Reject(<<>>)
     ELSE
       LET r == restoreTeam(s, rooms[code], rejoinData(s, rooms[code], playerId), roomCode)
           room == [r.room EXCEPT !.membersCount = @ + 1]
       IN /\ rooms[code].membersCount < MaxMembers
          /\ Result(s, room, r.data,
                    r.events \o <<ToSocket(s, "roomState", publicRoomState(room))>>)

\* disconnect that gives the room back to the other teams when the
\* answering player leaves
disconnectReleasing(s) ==
  /\ sockets[s].connected
  /\ sockets' = [sockets EXCEPT ![s] = Gone]
  /\ UNCHANGED now
  /\ IF sockets[s].roomCode = <<>> \/ sockets[s].roomCode \notin DOMAIN rooms
       THEN out' = Emitted(<<>>) /\ UNCHANGED rooms
       ELSE LET left == [RoomOf(s) EXCEPT !.membersCount = IF @ > 0 THEN @ - 1 ELSE 0]
                room == IF left.phase = "locked" /\ left.lockedByPlayerId # ""
                           /\ sockets[s].playerId = left.lockedByPlayerId
                          THEN [left EXCEPT !.phase = "armed",
                                            !.lockedByTeamId = <<>>,
                                            !.lockedByPlayerId = "",
                                            !.timerRunning = TRUE,
                                            !.timerLastTickAt = now]
                          ELSE left
            IN /\ rooms' = [rooms EXCEPT ![room.roomCode] = room]
               /\ out' = Emitted(<<emitRoomState(room)>>)

disconnect(s) ==
  /\ sockets[s].connected
  /\ sockets' = [sockets EXCEPT ![s] = Gone]
  /\ UNCHANGED now
  /\ IF sockets[s].roomCode = <<>> \/ sockets[s].roomCode \notin DOMAIN rooms
       THEN out' = Emitted(<<>>) /\ UNCHANGED rooms
       ELSE LET room == [RoomOf(s) EXCEPT !.membersCount = IF @ > 0 THEN @ - 1 ELSE 0]
            IN /\ rooms' = [rooms EXCEPT ![room.roomCode] = room]
               /\ out' = Emitted(<<emitRoomState(room)>>)

(* ---------------------------- player events --------------------------- *)

\* setTeam without its "already has a team" lines
keepsTeamNever(room, playerId) == FALSE

\* setTeam keeps the team the player already has
keepsTeam(room, playerId) == Get(room.playerTeams, playerId, <<>>) # <<>>

\* "Assign": the room once playerId owns the team
assignTeam(room, playerId, requested) ==
  [room EXCEPT !.playerTeams = Put(@, playerId, requested),
               !.teamTaken = Put(@, requested, playerId)]

setTeam(s, teamId) ==
  /\ sockets[s].connected
  /\ IF requireRoomError(s) # "" THEN Reject(<<ErrorMsg(s, requireRoomError(s))>>)
     ELSE IF isKicked(s, RoomOf(s)) THEN Reject(<<Kicked(s, RoomOf(s).roomCode)>>)
     ELSE
       LET room == touchRoom(RoomOf(s))
           data == sockets[s]
           requested == trim(teamId)
           existing == Get(room.playerTeams, data.playerId, <<>>)
           takenBy == Get(room.teamTaken, requested, "")
       IN
       IF data.isHost THEN Result(s, room, data, <<ErrorMsg(s, "Host cannot select a team.")>>)
       ELSE IF data.playerId = ""
         THEN Result(s, room, data, <<ErrorMsg(s, "Missing playerId. Refresh /play.")>>)
       ELSE IF requested \notin DOMAIN room.teams
         THEN Result(s, room, data, <<ErrorMsg(s, "Invalid team.")>>)
       ELSE IF keepsTeam(room, data.playerId)
         THEN Result(s, room, [data EXCEPT !.teamId = existing],
                     <<TeamSet(s, existing)>>)
       ELSE IF takenBy # "" /\ takenBy # data.playerId
         THEN Result(s, room, data,
                     <<ErrorMsg(s, "This team is already taken in this room.")>>)
       ELSE
         LET assigned == assignTeam(room, data.playerId, requested) IN
         Result(s, assigned, [data EXCEPT !.teamId = requested],
                <<TeamSet(s, requested), emitRoomState(assigned)>>)

playerFocus(s, focused) ==
  /\ sockets[s].connected
  /\ IF requireRoomError(s) # "" THEN Reject(<<ErrorMsg(s, requireRoomError(s))>>)
     ELSE IF isKicked(s, RoomOf(s)) THEN Reject(<<>>)
     ELSE
       LET room == touchRoom(RoomOf(s))
           data == sockets[s]
       IN
       IF \/ ~room.fairPlayEnabled
          \/ focused # FALSE
          \/ room.phase \notin {"armed", "locked"}
          \/ data.playerId \in room.kickedPlayers
          \/ data.teamId = <<>>
          \/ data.playerId = ""
         THEN Result(s, room, data, <<>>)
         ELSE LET locked == [room EXCEPT !.focusLockedTeams = @ \cup {data.teamId}]
              IN Result(s, locked, data, <<emitRoomState(locked)>>)

\* an exception thrown out of a handler of socket s
Thrown(s, what) == [thrown |-> what, by |-> s]

setTeamName(s, name) ==
  /\ sockets[s].connected
  /\ IF requireRoomError(s) # ""
       \* requireRoom returned null and room.kickedPlayers is read from it
       THEN Reject(<<ErrorMsg(s, requireRoomError(s)), Thrown(s, "TypeError")>>)
     ELSE IF sockets[s].playerId \in RoomOf(s).kickedPlayers
       THEN Reject(<<ErrorMsg(s, "You were removed by host.")>>)
     ELSE
       LET room == touchRoom(RoomOf(s))
           data == sockets[s]
           teamId == data.teamId
           takenBy == Get(room.teamTaken, teamId, "")
           cleaned == trim(name)
           safe == collapseSpaces(cleaned)
       IN
       IF data.isHost THEN Result(s, room, data, <<ErrorMsg(s, "Host cannot set team name.")>>)
       ELSE IF teamId = <<>> THEN Result(s, room, data, <<ErrorMsg(s, "Choose a team first.")>>)
       ELSE IF data.playerId = "" \/ takenBy # data.playerId
         THEN Result(s, room, data, <<ErrorMsg(s, "You do not own this team.")>>)
       ELSE IF teamId \in room.teamNameLocked
         THEN Result(s, room, data,
                     <<ErrorMsg(s, "Team name can be changed only once per session.")>>)
       ELSE IF Len(cleaned) < MinNameLen \/ Len(cleaned) > MaxNameLen
         THEN Result(s, room, data, <<ErrorMsg(s, "Team name must be 2-16 characters.")>>)
       ELSE
         LET named == [room EXCEPT !.teams[teamId].name = safe,
                                   !.teamNameLocked = @ \cup {teamId}]
         IN Result(s, named, data, <<emitRoomState(named)>>)

(* ---------------------------- host commands --------------------------- *)

GameIsOver == "Game is over. Create a new room."

\* what a host command answers before it acts, or "" when it goes on;
\* `gated` is whether the handler has the room.gameOver line
hostRefusal(s, room, gated) ==
  IF ~isHost(s) THEN "Host only."
  ELSE IF gated /\ room.gameOver THEN GameIsOver
  ELSE ""

\* a host command refused after touchRoom
Refused(s, room, gated) ==
  Result(s, touchRoom(room), sockets[s], <<ErrorMsg(s, hostRefusal(s, room, gated))>>)

hostSetTeamCount(s, count) ==
  /\ sockets[s].connected
  /\ IF requireRoomError(s) # "" THEN Reject(<<ErrorMsg(s, requireRoomError(s))>>)
     ELSE IF hostRefusal(s, RoomOf(s), TRUE) # "" THEN Refused(s, RoomOf(s), TRUE)
     ELSE
       LET room == touchRoom(RoomOf(s))
           current == Cardinality(DOMAIN room.teams)
       IN
       IF count < 2 \/ count > maxTeams
         THEN Result(s, room, sockets[s],
                     <<ErrorMsg(s, "Team count must be between 2 and 6.")>>)
       ELSE IF count < current
         THEN Result(s, room, sockets[s],
                     <<ErrorMsg(s, "Can only increase team count for now.")>>)
       ELSE IF count = current THEN Result(s, room, sockets[s], <<>>)
       ELSE
         LET grown == [room EXCEPT !.teams =
                         [t \in {TeamId(i) : i \in 1..count} |->
                            IF t \in DOMAIN room.teams THEN room.teams[t]
                            ELSE [id |-> t, name |-> DefaultName(t), score |-> 0]]]
         IN Result(s, grown, sockets[s], <<emitRoomState(grown)>>)

\* `seconds` is given in microseconds, so that fractions of a millisecond exist:
\* Number.isFinite(s) && s > 0 && s <= 600
secondsAccepted(us) == us > 0 /\ us <= MaxSeconds * 1000000

\* Math.floor(s * 1000)
toDurationMs(us) == us \div 1000

\* the room once hostSetDuration has accepted the value
setDuration(room, us) ==
  [room EXCEPT !.durationMs = toDurationMs(us),
               !.remainingMs = IF ~room.timerRunning THEN toDurationMs(us) ELSE @]

hostSetDuration(s, us) ==
  /\ sockets[s].connected
  /\ IF requireRoomError(s) # "" THEN Reject(<<ErrorMsg(s, requireRoomError(s))>>)
     ELSE IF hostRefusal(s, RoomOf(s), TRUE) # "" THEN Refused(s, RoomOf(s), TRUE)
     ELSE
       LET room == touchRoom(RoomOf(s)) IN
       IF ~secondsAccepted(us)
         THEN Result(s, room, sockets[s], <<ErrorMsg(s, "Duration must be 1..600 seconds.")>>)
         ELSE Result(s, setDuration(room, us), sockets[s],
                     <<emitRoomState(setDuration(room, us))>>)

hostNextRound(s) ==
  /\ sockets[s].connected
  /\ IF requireRoomError(s) # "" THEN Reject(<<ErrorMsg(s, requireRoomError(s))>>)
     ELSE IF hostRefusal(s, RoomOf(s), TRUE) # "" THEN Refused(s, RoomOf(s), TRUE)
     ELSE
       LET room == touchRoom(RoomOf(s))
           next == resetToLobby([room EXCEPT !.roundNumber = @ + 1, !.timeUpAt = -1])
       IN /\ room.roundNumber < MaxRound
          /\ Result(s, next, sockets[s], <<emitRoomState(next)>>)

\* hostBeepStart with its commented-out roundNumber line restored
beepStartCounting(room) ==
  [room EXCEPT
     !.timeUpAt = -1,
     !.roundNumber = @ + 1,
     !.falseStartTeams = {},
     !.focusLockedTeams = {},
     !.phase = "armed",
     !.lockedBySocketId = "",
     !.lockedByTeamId = <<>>,
     !.lastBuzz = <<>>,
     !.firstBuzzTeamId = <<>>,
     !.remainingMs = room.durationMs,
     !.timerRunning = TRUE,
     !.timerLastTickAt = now]

\* the room once hostBeepStart has armed it
beepStart(room) ==
  [room EXCEPT
     !.timeUpAt = -1,
     !.falseStartTeams = {},
     !.focusLockedTeams = {},
     !.phase = "armed",
     !.lockedBySocketId = "",
     !.lockedByTeamId = <<>>,
     !.lastBuzz = <<>>,
     !.firstBuzzTeamId = <<>>,
     !.remainingMs = room.durationMs,
     !.timerRunning = TRUE,
     !.timerLastTickAt = now]

hostBeepStart(s) ==
  /\ sockets[s].connected
  /\ IF requireRoomError(s) # "" THEN Reject(<<ErrorMsg(s, requireRoomError(s))>>)
     ELSE IF hostRefusal(s, RoomOf(s), TRUE) # "" THEN Refused(s, RoomOf(s), TRUE)
     ELSE
       LET armed == beepStart(touchRoom(RoomOf(s))) IN
       Result(s, armed, sockets[s],
              <<ToRoom(armed.roomCode, "beep", <<>>), emitRoomState(armed)>>)

\* pauseTimer that only stops the clock
pauseTimerOnly(room) ==
  [room EXCEPT !.timerRunning = FALSE, !.timerLastTickAt = -1]

\* the room once hostPauseTimer has ended the round
pauseTimer(room) ==
  [room EXCEPT
     !.timerRunning = FALSE,
     !.timerLastTickAt = -1,
     !.remainingMs = room.durationMs,
     !.phase = "lobby",
     !.lastBuzz = <<>>,
     !.lockedByTeamId = <<>>,
     !.lockedByPlayerId = "",
     !.lockedOutTeams = {},
     !.firstBuzzTeamId = <<>>]

hostPauseTimer(s) ==
  /\ sockets[s].connected
  /\ IF requireRoomError(s) # "" THEN Reject(<<ErrorMsg(s, requireRoomError(s))>>)
     ELSE IF hostRefusal(s, RoomOf(s), TRUE) # "" THEN Refused(s, RoomOf(s), TRUE)
     ELSE
       LET paused == pauseTimer(touchRoom(RoomOf(s))) IN
       Result(s, paused, sockets[s], <<emitRoomState(paused)>>)

\* "resume timer if time remains"
resumeTimer(room) ==
  IF room.remainingMs > 0
    THEN [room EXCEPT !.timerRunning = TRUE, !.timerLastTickAt = now]
    ELSE room

\* incorrect without its lockedOutTeams.add line
incorrectForgiving(room) ==
  resumeTimer(
    [room EXCEPT
       !.phase = "armed",
       !.lockedBySocketId = "",
       !.lockedByTeamId = <<>>,
       !.lastBuzz = <<>>,
       !.lockedByPlayerId = ""])

\* the locked room once the host has ruled the answer incorrect
incorrect(room) ==
  resumeTimer(
    [room EXCEPT
       !.lockedOutTeams = IF room.lockedByTeamId # <<>> THEN @ \cup {room.lockedByTeamId} ELSE @,
       !.phase = "armed",
       !.lockedBySocketId = "",
       !.lockedByTeamId = <<>>,
       !.lastBuzz = <<>>,
       !.lockedByPlayerId = ""])

hostIncorrect(s) ==
  /\ sockets[s].connected
  /\ IF requireRoomError(s) # "" THEN Reject(<<ErrorMsg(s, requireRoomError(s))>>)
     ELSE IF hostRefusal(s, RoomOf(s), TRUE) # "" THEN Refused(s, RoomOf(s), TRUE)
     ELSE
       LET room == touchRoom(RoomOf(s)) IN
       IF room.phase # "locked" THEN Result(s, room, sockets[s], <<>>)
       ELSE Result(s, incorrect(room), sockets[s], <<emitRoomState(incorrect(room))>>)

\* the team hostCorrect scores for, or <<>>
scoredTeamId(room) ==
  IF room.lockedByTeamId # <<>> /\ room.lockedByTeamId \in DOMAIN room.teams
    THEN room.lockedByTeamId ELSE <<>>

\* correct without its score line
correctUnscored(room) ==
  resetToLobby([room EXCEPT !.roundNumber = @ + 1, !.timeUpAt = -1])

\* the locked room once the host has ruled the answer correct
correct(room) ==
  LET scored == IF scoredTeamId(room) # <<>>
                  THEN [room EXCEPT !.teams[scoredTeamId(room)].score = @ + 1]
                  ELSE room
  IN resetToLobby([scored EXCEPT !.roundNumber = @ + 1, !.timeUpAt = -1])

hostCorrect(s) ==
  /\ sockets[s].connected
  /\ IF requireRoomError(s) # "" THEN Reject(<<ErrorMsg(s, requireRoomError(s))>>)
     ELSE IF hostRefusal(s, RoomOf(s), TRUE) # "" THEN Refused(s, RoomOf(s), TRUE)
     ELSE
       LET room == touchRoom(RoomOf(s)) IN
       IF room.phase # "locked" THEN Result(s, room, sockets[s], <<>>)
       ELSE
         /\ room.roundNumber < MaxRound
         /\ scoredTeamId(room) # <<>> => room.teams[scoredTeamId(room)].score < MaxScore
         /\ Result(s, correct(room), sockets[s],
                   (IF scoredTeamId(room) # <<>>
                      THEN <<ToRoom(room.roomCode, "correctFx", [teamId |-> scoredTeamId(room)])>>
                      ELSE <<>>)
                     \o <<emitRoomState(correct(room))>>)

\* setFairPlay that keeps the focus locks when fair play is switched off
setFairPlayLocksKept(room, enabled) == [room EXCEPT !.fairPlayEnabled = enabled]

\* the room once hostSetFairPlay has run: Boolean(enabled)
setFairPlay(room, enabled) ==
  [room EXCEPT !.fairPlayEnabled = enabled,
               !.focusLockedTeams = IF ~enabled THEN {} ELSE @]

hostSetFairPlay(s, enabled) ==
  /\ sockets[s].connected
  /\ IF requireRoomError(s) # "" THEN Reject(<<ErrorMsg(s, requireRoomError(s))>>)
     ELSE IF hostRefusal(s, RoomOf(s), FALSE) # "" THEN Refused(s, RoomOf(s), FALSE)
     ELSE
       LET set == setFairPlay(touchRoom(RoomOf(s)), enabled) IN
       Result(s, set, sockets[s], <<emitRoomState(set)>>)

hostAdjustScore(s, teamId, delta) ==
  /\ sockets[s].connected
  /\ IF requireRoomError(s) # "" THEN Reject(<<ErrorMsg(s, requireRoomError(s))>>)
     ELSE IF hostRefusal(s, RoomOf(s), TRUE) # "" THEN Refused(s, RoomOf(s), TRUE)
     ELSE
       LET room == touchRoom(RoomOf(s))
           t == trim(teamId)
           absDelta == IF delta < 0 THEN -delta ELSE delta
       IN
       IF t \notin DOMAIN room.teams \/ absDelta > MaxDelta
         THEN Result(s, room, sockets[s], <<ErrorMsg(s, "Invalid score adjustment.")>>)
         ELSE
           LET adjusted == [room EXCEPT !.teams[t].score = @ + delta] IN
           /\ adjusted.teams[t].score \in -MaxScore..MaxScore
           /\ Result(s, adjusted, sockets[s], <<emitRoomState(adjusted)>>)

hostUnblockFocus(s, teamId) ==
  /\ sockets[s].connected
  /\ IF requireRoomError(s) # "" THEN Reject(<<ErrorMsg(s, requireRoomError(s))>>)
     ELSE IF hostRefusal(s, RoomOf(s), FALSE) # "" THEN Refused(s, RoomOf(s), FALSE)
     ELSE
       LET room == touchRoom(RoomOf(s))
           t == trim(teamId)
       IN
       IF t \notin DOMAIN room.teams
         THEN Result(s, room, sockets[s], <<ErrorMsg(s, "Invalid team.")>>)
         ELSE
           LET unblocked == [room EXCEPT !.focusLockedTeams = @ \ {t}] IN
           Result(s, unblocked, sockets[s], <<emitRoomState(unblocked)>>)

\* the sockets hostRemoveTeam detaches: those of the kicked player in this room
kickedSockets(room, kickedPlayerId) ==
  {x \in SocketIds : /\ sockets[x].connected
                     /\ kickedPlayerId # ""
                     /\ sockets[x].roomCode = room.roomCode
                     /\ sockets[x].playerId = kickedPlayerId}

\* the events of a set of sockets, in socket order
RECURSIVE kickedEvents(_, _, _)
kickedEvents(i, set, code) ==
  IF i \notin SocketIds THEN <<>>
  ELSE (IF i \in set THEN <<Kicked(i, code)>> ELSE <<>>) \o kickedEvents(i + 1, set, code)

\* releaseLock that leaves the room locked
releaseLockNever(room, t) == room

\* hostRemoveTeam: the lock is released when the removed team was answering
releaseLock(room, t) ==
  IF room.lockedByTeamId = t
    THEN resumeTimer([room EXCEPT !.lockedByTeamId = <<>>,
                                  !.lockedByPlayerId = "",
                                  !.lastBuzz = <<>>,
                                  !.phase = "armed"])
    ELSE room

\* removeTeam without its playerTeams.delete line
removeTeamOwnerKept(room, t) ==
  LET kickedPlayerId == Get(room.teamTaken, t, "")
      freed == [room EXCEPT
                  !.teamTaken = Delete(@, t),
                  !.kickedPlayers = IF kickedPlayerId # "" THEN @ \cup {kickedPlayerId} ELSE @,
                  !.teams[t].name = DefaultName(t),
                  !.teams[t].score = 0,
                  !.teamNameLocked = @ \ {t},
                  !.lockedOutTeams = @ \ {t},
                  !.falseStartTeams = @ \ {t},
                  !.focusLockedTeams = @ \ {t}]
      released == releaseLock(freed, t)
  IN [released EXCEPT !.teamTaken =
        [k \in {k \in DOMAIN @ : @[k] \in DOMAIN released.playerTeams} |-> @[k]]]

\* the room once hostRemoveTeam has removed team t
removeTeam(room, t) ==
  LET kickedPlayerId == Get(room.teamTaken, t, "")
      freed == [room EXCEPT
                  !.teamTaken = Delete(@, t),
                  !.playerTeams = IF kickedPlayerId # "" THEN Delete(@, kickedPlayerId) ELSE @,
                  !.kickedPlayers = IF kickedPlayerId # "" THEN @ \cup {kickedPlayerId} ELSE @,
                  !.teams[t].name = DefaultName(t),
                  !.teams[t].score = 0,
                  !.teamNameLocked = @ \ {t},
                  !.lockedOutTeams = @ \ {t},
                  !.falseStartTeams = @ \ {t},
                  !.focusLockedTeams = @ \ {t}]
      released == releaseLock(freed, t)
  IN [released EXCEPT !.teamTaken =
        [k \in {k \in DOMAIN @ : @[k] \in DOMAIN released.playerTeams} |-> @[k]]]

hostRemoveTeam(s, teamId) ==
  /\ sockets[s].connected
  /\ IF requireRoomError(s) # "" THEN Reject(<<ErrorMsg(s, requireRoomError(s))>>)
     ELSE IF hostRefusal(s, RoomOf(s), FALSE) # "" THEN Refused(s, RoomOf(s), FALSE)
     ELSE
       LET room == touchRoom(RoomOf(s))
           t == trim(teamId)
       IN
       IF t \notin DOMAIN room.teams
         THEN Result(s, room, sockets[s], <<ErrorMsg(s, "Invalid team.")>>)
         ELSE
           LET removed == removeTeam(room, t)
               gone == kickedSockets(room, Get(room.teamTaken, t, ""))
           IN /\ rooms' = [rooms EXCEPT ![room.roomCode] = removed]
              /\ sockets' = [x \in SocketIds |->
                               IF x \in gone
                                 THEN [sockets[x] EXCEPT
                                         !.teamId = <<>>,
                                         !.joined = IF @ = room.roomCode THEN <<>> ELSE @]
                                 ELSE sockets[x]]
              /\ out' = Emitted(kickedEvents(1, gone, room.roomCode) \o <<emitRoomState(removed)>>)
              /\ UNCHANGED now

\* Math.max over the scores
maxScore(room) ==
  CHOOSE m \in {room.teams[t].score : t \in DOMAIN room.teams} :
    \A t \in DOMAIN room.teams : room.teams[t].score <= m

\* winners without its filter
winnersEveryTeam(room) == TeamOrder(room)

\* teams.filter(score === maxScore), in team order
winners(room) ==
  SelectSeq(TeamOrder(room), LAMBDA t : room.teams[t].score = maxScore(room))

\* winners.map(w => w.name).join(" & ")
RECURSIVE joinNames(_, _)
joinNames(room, ts) ==
  IF ts = <<>> THEN <<>>
  ELSE IF Len(ts) = 1 THEN room.teams[ts[1]].name
  ELSE room.teams[ts[1]].name \o <<" ", "&", " ">> \o joinNames(room, Tail(ts))

\* the two winnerText templates; "#" stands for the medal sign
wonText(name) == <<"#">> \o name \o <<" ", "W", "O", "N", " ", "!", "#">>
tieText(names) == <<"T", "I", "E", " ", "(">> \o names \o <<")">>

\* the room once hostEndRound has ended the game (a room always has teams)
endRound(room) ==
  LET w == winners(room) IN
  [room EXCEPT
     !.timerRunning = FALSE,
     !.timerLastTickAt = -1,
     !.phase = "lobby",
     !.timeUpAt = -1,
     !.gameOver = TRUE,
     !.winnerTeamId = IF Len(w) = 1 THEN w[1] ELSE <<>>,
     !.winnerText = IF Len(w) = 1 THEN wonText(room.teams[w[1]].name)
                    ELSE tieText(joinNames(room, w))]

hostEndRound(s) ==
  /\ sockets[s].connected
  /\ IF requireRoomError(s) # "" THEN Reject(<<ErrorMsg(s, requireRoomError(s))>>)
     ELSE IF hostRefusal(s, RoomOf(s), TRUE) # "" THEN Refused(s, RoomOf(s), TRUE)
     ELSE
       LET ended == endRound(touchRoom(RoomOf(s))) IN
       Result(s, ended, sockets[s], <<emitRoomState(ended)>>)

(* ------------------------------- buzzing ------------------------------ *)

\* the room once a false start of teamId is recorded
falseStart(room, teamId) ==
  [room EXCEPT !.lockedOutTeams = @ \cup {teamId},
               !.falseStartTeams = @ \cup {teamId}]

falseStartAttempt(s) ==
  /\ sockets[s].connected
  /\ IF requireRoomError(s) # "" THEN Reject(<<ErrorMsg(s, requireRoomError(s))>>)
     ELSE IF isKicked(s, RoomOf(s)) THEN Reject(<<Kicked(s, RoomOf(s).roomCode)>>)
     ELSE
       LET room == touchRoom(RoomOf(s))
           data == sockets[s]
       IN
       IF room.phase # "lobby" \/ data.teamId = <<>> \/ data.playerId = ""
         THEN Result(s, room, data, <<>>)
         ELSE Result(s, falseStart(room, data.teamId), data,
                     <<emitRoomState(falseStart(room, data.teamId))>>)

\* buzzRejection without its NOT_ARMED line
buzzRejectionAnyPhase(room, playerId, teamId) ==
  IF Get(room.playerTeams, playerId, <<>>) = <<>>
     \/ Get(room.playerTeams, playerId, <<>>) # teamId THEN "NO_TEAM"
  ELSE IF teamId \notin DOMAIN room.teams THEN "NO_TEAM"
  ELSE IF teamId = <<>> \/ playerId = "" THEN "NO_TEAM"
  ELSE IF room.remainingMs <= 0 THEN "TIME_UP"
  ELSE IF teamId \in room.lockedOutTeams THEN "TEAM_LOCKED_OUT"
  ELSE IF room.fairPlayEnabled /\ teamId \in room.focusLockedTeams THEN "FOCUS_LOCKED"
  ELSE ""

\* buzzRejection without its TEAM_LOCKED_OUT line
buzzRejectionLockoutIgnored(room, playerId, teamId) ==
  IF Get(room.playerTeams, playerId, <<>>) = <<>>
     \/ Get(room.playerTeams, playerId, <<>>) # teamId THEN "NO_TEAM"
  ELSE IF teamId \notin DOMAIN room.teams THEN "NO_TEAM"
  ELSE IF teamId = <<>> \/ playerId = "" THEN "NO_TEAM"
  ELSE IF room.phase # "armed" THEN "NOT_ARMED"
  ELSE IF room.remainingMs <= 0 THEN "TIME_UP"
  ELSE IF room.fairPlayEnabled /\ teamId \in room.focusLockedTeams THEN "FOCUS_LOCKED"
  ELSE ""

\* the reason buzz rejects with, or "" when the buzz is accepted
buzzRejection(room, playerId, teamId) ==
  IF Get(room.playerTeams, playerId, <<>>) = <<>>
     \/ Get(room.playerTeams, playerId, <<>>) # teamId THEN "NO_TEAM"
  ELSE IF teamId \notin DOMAIN room.teams THEN "NO_TEAM"
  ELSE IF teamId = <<>> \/ playerId = "" THEN "NO_TEAM"
  ELSE IF room.phase # "armed" THEN "NOT_ARMED"
  ELSE IF room.remainingMs <= 0 THEN "TIME_UP"
  ELSE IF teamId \in room.lockedOutTeams THEN "TEAM_LOCKED_OUT"
  ELSE IF room.fairPlayEnabled /\ teamId \in room.focusLockedTeams THEN "FOCUS_LOCKED"
  ELSE ""

\* acceptBuzz without its lockedByPlayerId line
acceptBuzzUnsigned(room, playerId, teamId) ==
  [room EXCEPT
     !.phase = "locked",
     !.lockedByTeamId = teamId,
     !.firstBuzzTeamId = IF @ = <<>> THEN teamId ELSE @,
     !.lastBuzz = <<playerId, teamId>>,
     !.timerRunning = FALSE,
     !.timerLastTickAt = -1]

\* the room once the buzz of playerId for teamId is accepted
acceptBuzz(room, playerId, teamId) ==
  [room EXCEPT
     !.phase = "locked",
     !.lockedByPlayerId = playerId,
     !.lockedByTeamId = teamId,
     !.firstBuzzTeamId = IF @ = <<>> THEN teamId ELSE @,
     !.lastBuzz = <<playerId, teamId>>,
     !.timerRunning = FALSE,
     !.timerLastTickAt = -1]

buzz(s) ==
  /\ sockets[s].connected
  /\ IF requireRoomError(s) # "" THEN Reject(<<ErrorMsg(s, requireRoomError(s))>>)
     ELSE
       LET room == touchRoom(RoomOf(s))
           data == sockets[s]
           reason == buzzRejection(room, data.playerId, data.teamId)
       IN
       IF isKicked(s, room) THEN Result(s, room, data, <<Kicked(s, room.roomCode)>>)
       ELSE IF reason # "" THEN Result(s, room, data, <<BuzzRejected(s, reason)>>)
       ELSE
         LET locked == acceptBuzz(room, data.playerId, data.teamId) IN
         Result(s, locked, data,
                <<ToRoom(room.roomCode, "buzzed", [teamId |-> data.teamId, roomCode |-> room.roomCode]),
                  emitRoomState(locked)>>)

(* ------------------------------ timer loop ---------------------------- *)

\* decrement that takes no time off
decrementStuck(remainingMs, delta) == remainingMs

\* remainingMs after a tick: Math.max(0, remainingMs - delta)
decrement(remainingMs, delta) ==
  IF remainingMs - delta > 0 THEN remainingMs - delta ELSE 0

\* timeUp that also wipes the scores
timeUpScoresReset(room, t) ==
  [resetToLobby([room EXCEPT !.timeUpAt = t]) EXCEPT
     !.remainingMs = 0,
     !.teams = [u \in DOMAIN room.teams |-> [room.teams[u] EXCEPT !.score = 0]]]

\* the room when its time is up, at instant t
timeUp(room, t) ==
  [resetToLobby([room EXCEPT !.timeUpAt = t]) EXCEPT !.remainingMs = 0]

\* one room in the timer loop, at instant t
tickRoom(room, t) ==
  IF ~room.timerRunning THEN room
  ELSE
    LET touched == [room EXCEPT !.lastActivityAt = t,
                                !.timerLastTickAt = IF @ = -1 THEN t ELSE @]
        delta == t - touched.timerLastTickAt
        left == decrement(touched.remainingMs, delta)
    IN
    IF delta <= 0 THEN touched
    ELSE IF left = 0 THEN timeUp(touched, t)
    ELSE [touched EXCEPT !.timerLastTickAt = t, !.remainingMs = left]

\* what the timer loop emits for one room
tickEvents(room, t) ==
  LET after == tickRoom(room, t) IN
  IF ~room.timerRunning THEN <<>>
  ELSE IF t - (IF room.timerLastTickAt = -1 THEN t ELSE room.timerLastTickAt) <= 0 THEN <<>>
  ELSE IF after.remainingMs = 0
    THEN <<ToRoom(room.roomCode, "timeUp", <<>>), emitRoomState(after)>>
  ELSE <<emitRoomState(after)>>

RoomOrder == <<RoomA, RoomW>>

RECURSIVE allTickEvents(_, _)
allTickEvents(i, t) ==
  IF i > Len(RoomOrder) THEN <<>>
  ELSE (IF RoomOrder[i] \in DOMAIN rooms THEN tickEvents(rooms[RoomOrder[i]], t) ELSE <<>>)
         \o allTickEvents(i + 1, t)

\* the setInterval callback of the timer loop, fired d ms after the last one
Tick(d) ==
  /\ now + d <= MaxNow
  /\ now' = now + d
  /\ rooms' = [c \in DOMAIN rooms |-> tickRoom(rooms[c], now + d)]
  /\ out' = Emitted(allTickEvents(1, now + d))
  /\ UNCHANGED sockets

(* -------------------------------- reaper ------------------------------ *)

ROOM_TTL == 1800000
EMPTY_GRACE_MS == 120000

\* the reaper's test with the membersCount condition left out
expiredWhileMembers(room, t) ==
  LET idleMs == t - room.lastActivityAt
      emptyTooLong == idleMs > EMPTY_GRACE_MS
      idleTooLong == idleMs > ROOM_TTL
  IN idleTooLong \/ emptyTooLong

\* the reaper deletes the room at a sweep at instant t (lastActivityAt is set
\* from creation on, so the `|| room.createdAt || now` is never reached)
expired(room, t) ==
  LET idleMs == t - room.lastActivityAt
      emptyTooLong == room.membersCount = 0 /\ idleMs > EMPTY_GRACE_MS
      idleTooLong == idleMs > ROOM_TTL
  IN idleTooLong \/ emptyTooLong

\* the setInterval callback of the reaper, fired d ms after the last
\* callback of either loop
reaper(d) ==
  /\ now + d <= MaxNow
  /\ now' = now + d
  /\ rooms' = [c \in {c \in DOMAIN rooms : ~expired(rooms[c], now + d)} |-> rooms[c]]
  /\ out' = Emitted(<<>>)
  /\ UNCHANGED sockets

(* ------------------------------- clients ------------------------------ *)

\* The events of the clients `I`: which sockets exist, what each presents in
\* joinRoom / rejoinRoom, which pages send which events (the player page on
\* I.devices, the host page on I.consoles) and which payloads they carry.

Arriving(I) == \E s \in I.sockets : Connect(s)

Leaving(I) == \E s \in I.leavers : disconnect(s)

\* sockets attach to rooms
Attaching(I) ==
  \/ \E s \in I.sockets, roomCode \in I.codes :
        \E hostKey \in I.keys[s], playerId \in I.pids[s] :
           joinRoom(s, roomCode, hostKey, playerId)
  \/ \E s \in I.sockets, roomCode \in I.codes :
        \E playerId \in I.pids[s] : rejoinRoom(s, roomCode, playerId)

\* players claim and name teams
Claiming(I) ==
  \/ \E s \in I.devices, teamId \in I.teamIds : setTeam(s, teamId)
  \/ \E s \in I.devices, name \in I.names : setTeamName(s, name)

Joining(I) == Attaching(I) \/ Claiming(I)

\* the players' part of a round
Playing(I) ==
  \/ \E s \in I.devices, focused \in I.focused : playerFocus(s, focused)
  \/ \E s \in I.devices : buzz(s)
  \/ \E s \in I.devices : falseStartAttempt(s)

\* the host's part of a round
Judging(I) ==
  \/ \E s \in I.consoles : hostNextRound(s)
  \/ \E s \in I.consoles : hostBeepStart(s)
  \/ \E s \in I.consoles : hostPauseTimer(s)
  \/ \E s \in I.consoles : hostIncorrect(s)
  \/ \E s \in I.consoles : hostCorrect(s)
  \/ \E s \in I.consoles : hostEndRound(s)

Removing(I) == \E s \in I.consoles, teamId \in I.teamIds : hostRemoveTeam(s, teamId)

\* the host's settings
Configuring(I) ==
  \/ \E s \in I.consoles, count \in I.counts : hostSetTeamCount(s, count)
  \/ \E s \in I.consoles, us \in I.seconds : hostSetDuration(s, us)
  \/ \E s \in I.consoles, enabled \in I.enabled : hostSetFairPlay(s, enabled)
  \/ \E s \in I.consoles, teamId \in I.teamIds, delta \in I.deltas :
        hostAdjustScore(s, teamId, delta)
  \/ \E s \in I.consoles, teamId \in I.teamIds : hostUnblockFocus(s, teamId)

Ticking(I) == \E d \in I.ticks : Tick(d)

Sweeping(I) == \E d \in I.sweeps : reaper(d)

\* the host sets the length of a round
Timing(I) == \E s \in I.consoles, us \in I.seconds : hostSetDuration(s, us)

\* One game: a host console and two players, each browser with its own
\* persisted playerId, in the room ABCD.
Game ==
  [ sockets |-> {1, 2, 3},
    consoles |-> {1},
    devices |-> {2, 3},
    leavers |-> {2},
    codes |-> {<<" ", "a", "b", "c", "d">>},
    keys |-> <<{"keyA"}, {""}, {""}>>,
    pids |-> <<{""}, {"p1"}, {"p2"}>>,
    teamIds |-> {TeamId(1), <<"2", " ">>},
    names |-> {<<"a">>},
    focused |-> {FALSE},
    counts |-> {2},
    \* 1 s
    seconds |-> {1000000},
    enabled |-> {FALSE, TRUE},
    deltas |-> {1},
    \* two callbacks within one millisecond; a callback one second late
    ticks |-> {0, 5 * TICK_MS} ]

\* the game once the host has joined with the room's key and the two
\* players have joined and claimed teams 1 and 2
SeatedRoom ==
  assignTeam(assignTeam([createRoom(RoomA) EXCEPT !.membersCount = 3], "p1", TeamId(1)),
             "p2", TeamId(2))

Seated(s) ==
  [connected |-> TRUE, roomCode |-> RoomA, joined |-> RoomA,
   isHost |-> (s = 1),
   playerId |-> <<"", "p1", "p2">>[s],
   teamId |-> <<(<<>>), TeamId(1), TeamId(2)>>[s]]

InitRound ==
  /\ now = 0
  /\ rooms = [c \in {RoomA} |-> SeatedRoom]
  /\ sockets = [s \in SocketIds |-> Seated(s)]
  /\ out = Unobserved

NextRound ==
  Playing(Game) \/ Judging(Game) \/ Removing(Game) \/ Configuring(Game)
    \/ Ticking(Game) \/ Leaving(Game)

\* the rounds of a seated game
SpecRound == InitRound /\ [][NextRound]_vars

InitBuzz ==
  /\ now = 0
  /\ rooms = [c \in {RoomA} |-> SeatedRoom]
  /\ sockets = [s \in SocketIds |-> Seated(s)]
  /\ out = <<>>

NextBuzz == Playing(Game) \/ Judging(Game) \/ Removing(Game) \/ Ticking(Game)

\* the rounds of a seated game, the emitted events observed
SpecBuzz == InitBuzz /\ [][NextBuzz]_vars

\* Any client: two sockets that present any key and the playerIds of two
\* browsers (p1 is open in both) and send any event, whatever page it claims
\* to be.
Crowd ==
  [ sockets |-> {1, 2},
    consoles |-> {1, 2},
    devices |-> {1, 2},
    leavers |-> {1, 2},
    codes |-> {<<" ", "a", "b", "c", "d">>},
    keys |-> <<{"", "keyA"}, {"", "keyA"}, {}>>,
    pids |-> <<{"", "p1", "p2"}, {"", "p1"}, {}>>,
    teamIds |-> {TeamId(1), <<"2", " ">>, <<"9">>},
    names |-> {<<"a">>, <<" ", "a", " ", " ", "b", " ">>},
    focused |-> {FALSE, TRUE},
    counts |-> {1, 2, MaxCount, maxTeams + 1},
    \* 0 s, 0.0005 s, 1 s, 600 s, 600.000001 s
    seconds |-> {0, 500, 1000000, 600000000, 600000001},
    enabled |-> {FALSE, TRUE},
    deltas |-> {-1, 1, MaxDelta + 1},
    \* two callbacks within one millisecond; a callback one second late
    ticks |-> {0, 5 * TICK_MS} ]

Init ==
  /\ now = 0
  /\ rooms = [c \in {RoomA} |-> createRoom(c)]
  /\ sockets = [s \in SocketIds |-> Gone]
  /\ out = <<>>

Next == Arriving(Crowd) \/ Leaving(Crowd) \/ Joining(Crowd) \/ Removing(Crowd)

Spec == Init /\ [][Next]_vars

NextKicked ==
  Arriving(Game) \/ Leaving(Game) \/ Attaching(Game) \/ Claiming(Game) \/ Playing(Game)
    \/ Removing(Game)

\* a seated game in the lobby: players come and go, send every player
\* command, and the host removes teams; the emitted events observed
SpecKicked == InitBuzz /\ [][NextKicked]_vars

\* One browser that was given the key of ABCD only and knows the codes of
\* ABCD and WXYZ; it sends every host command.
Visitor ==
  [ sockets |-> {1},
    consoles |-> {1},
    codes |-> {<<"a", "b", "c", "d">>, <<"w", "x", "y", "z">>},
    keys |-> <<{"", "keyA"}, {}, {}>>,
    pids |-> <<{"", "p1"}, {}, {}>>,
    teamIds |-> {TeamId(1)},
    counts |-> {2},
    \* 0 s
    seconds |-> {0},
    enabled |-> {TRUE},
    deltas |-> {MaxDelta + 1} ]

InitRooms ==
  /\ now = 0
  /\ rooms = [c \in {RoomA, RoomW} |-> createRoom(c)]
  /\ sockets = [s \in SocketIds |-> Gone]
  /\ out = <<>>

NextRooms ==
  Arriving(Visitor) \/ Attaching(Visitor) \/ Judging(Visitor) \/ Removing(Visitor)
    \/ Configuring(Visitor)

\* two rooms and a browser that was given the key of one of them
SpecRooms == InitRooms /\ [][NextRooms]_vars

\* One game against the clock: the host rules and sets rounds of 0.0005 s
\* and 0.501 s, one player buzzes, and the timer callback fires within the
\* same millisecond or half a second late.
Clock ==
  [ sockets |-> {1, 2, 3},
    consoles |-> {1},
    devices |-> {2},
    focused |-> {FALSE},
    \* 0.0005 s, 0.501 s
    seconds |-> {500, 501000},
    ticks |-> {0, 500} ]

\* the seated game once the host has set rounds of 0.501 s
InitTimer ==
  /\ now = 0
  /\ rooms = [c \in {RoomA} |-> setDuration(SeatedRoom, 501000)]
  /\ sockets = [s \in SocketIds |-> Seated(s)]
  /\ out = <<>>

NextTimer == Playing(Clock) \/ Judging(Clock) \/ Timing(Clock) \/ Ticking(Clock)

\* short rounds of a seated game, the emitted events observed
SpecTimer == InitTimer /\ [][NextTimer]_vars

\* the instant from which no client command arrives
QuietAt == 1000

\* the events of SpecTimer, the clients silent from QuietAt on
NextExpiry ==
  \/ now < QuietAt /\ (Playing(Clock) \/ Judging(Clock) \/ Timing(Clock))
  \/ Ticking(Clock)

\* the timer callback fires with the clock advanced
Advance == \E d \in Clock.ticks : d > 0 /\ Tick(d)

\* short rounds under setInterval: the callback keeps firing as time passes
SpecExpiry == InitTimer /\ [][NextExpiry]_vars /\ WF_vars(Advance)

\* One game at the host's desk: the host sends every setting, among them
\* rounds of 0 s, 0.0005 s, 0.5 s, 1 s, 600 s and 600.000001 s, and rules; one
\* player buzzes.
Desk ==
  [ sockets |-> {1, 2, 3},
    consoles |-> {1},
    devices |-> {2},
    focused |-> {FALSE},
    teamIds |-> {TeamId(1)},
    counts |-> {2},
    seconds |-> {0, 500, 500000, 1000000, 600000000, 600000001},
    enabled |-> {FALSE},
    deltas |-> {MaxDelta + 1} ]

NextDesk == Playing(Desk) \/ Judging(Desk) \/ Configuring(Desk)

\* the settings of a seated game, the emitted events observed
SpecDesk == InitBuzz /\ [][NextDesk]_vars

\* One game under fair play: the players report losing and regaining focus,
\* buzz and jump the beep; the host rules, removes teams, switches fair play
\* off and on and unblocks teams.
FairPlay ==
  [ sockets |-> {1, 2, 3},
    consoles |-> {1},
    devices |-> {2, 3},
    focused |-> {FALSE, TRUE},
    teamIds |-> {TeamId(1), <<"2", " ">>},
    counts |-> {2},
    seconds |-> {1000000},
    enabled |-> {FALSE, TRUE},
    deltas |-> {1} ]

NextFocus ==
  Playing(FairPlay) \/ Judging(FairPlay) \/ Removing(FairPlay) \/ Configuring(FairPlay)

\* the focus locks of a seated game, the emitted events observed
SpecFocus == InitBuzz /\ [][NextFocus]_vars

\* One browser tab whose session joins and rejoins ABCD under two playerIds
\* (p1, then p2 after the tab's storage changed), claims team 1 and sends the
\* player events, while the host console runs the rounds.
Roaming ==
  [ sockets |-> {1, 2},
    consoles |-> {1},
    devices |-> {2},
    codes |-> {<<"a", "b", "c", "d">>},
    keys |-> <<{"keyA"}, {""}, {}>>,
    pids |-> <<{""}, {"p1", "p2"}, {}>>,
    teamIds |-> {TeamId(1)},
    names |-> {<<"a">>},
    focused |-> {FALSE} ]

NextRoaming ==
  Arriving(Roaming) \/ Attaching(Roaming) \/ Claiming(Roaming) \/ Playing(Roaming)
    \/ Judging(Roaming)

\* a session that changes its playerId between joins, the emitted events
\* observed
SpecRoaming == Init /\ [][NextRoaming]_vars

\* Two old rooms and the host of one of them: the host rules, leaves and
\* comes back while both timer callbacks fire, within the same millisecond
\* or a second late.
Vigil ==
  [ sockets |-> {1},
    consoles |-> {1},
    leavers |-> {1},
    codes |-> {<<"a", "b", "c", "d">>, <<"w", "x", "y", "z">>},
    keys |-> <<{"keyA"}, {}, {}>>,
    pids |-> <<{""}, {}, {}>>,
    ticks |-> {0, 1000},
    sweeps |-> {0, 1000} ]

\* ABCD was created 29 min 59 s ago and its host joined then and has been
\* silent since; WXYZ was created 1 min 59 s ago and nobody joined it
InitReaper ==
  /\ now = 0
  /\ rooms = [c \in {RoomA, RoomW} |->
                IF c = RoomA
                  THEN [createRoom(c) EXCEPT !.createdAt = 1000 - ROOM_TTL,
                                             !.lastActivityAt = 1000 - ROOM_TTL,
                                             !.membersCount = 1]
                  ELSE [createRoom(c) EXCEPT !.createdAt = 1000 - EMPTY_GRACE_MS,
                                             !.lastActivityAt = 1000 - EMPTY_GRACE_MS]]
  /\ sockets = [s \in SocketIds |->
                  IF s = 1 THEN [FreshData EXCEPT !.roomCode = RoomA, !.joined = RoomA,
                                                  !.isHost = TRUE]
                  ELSE Gone]
  /\ out = <<>>

NextReaper ==
  Arriving(Vigil) \/ Leaving(Vigil) \/ Attaching(Vigil) \/ Judging(Vigil)
    \/ Ticking(Vigil) \/ Sweeping(Vigil)

\* old rooms under the reaper
SpecReaper == InitReaper /\ [][NextReaper]_vars

(* --------------------------- round invariants ------------------------- *)

\* C3: in every reachable state of a room, a locked room names who locked
\* it: phase = locked implies lockedByPlayerId and lockedByTeamId are not null.
C3_LockedNamesLocker ==
  \A c \in DOMAIN rooms :
    rooms[c].phase = "locked" =>
      rooms[c].lockedByPlayerId # "" /\ rooms[c].lockedByTeamId # <<>>

\* a room locked by a second buzz, after another team was ruled incorrect
C3_Witness ==
  \E c \in DOMAIN rooms :
    /\ rooms[c].phase = "locked"
    /\ rooms[c].lockedOutTeams # {}
    /\ rooms[c].lockedByTeamId \notin rooms[c].lockedOutTeams

\* C4: in every reachable state of a room the timer runs only while the room
\* is armed: phase lobby or locked implies timerRunning = false.
C4_TimerOnlyWhileArmed ==
  \A c \in DOMAIN rooms :
    rooms[c].phase \in {"lobby", "locked"} => ~rooms[c].timerRunning

\* a room back in the lobby because its time ran out
C4_Witness ==
  \E c \in DOMAIN rooms :
    /\ rooms[c].phase = "lobby"
    /\ rooms[c].timeUpAt # -1
    /\ rooms[c].remainingMs = 0

\* C5: in every reachable state of a room, 0 <= remainingMs <= durationMs.
C5_RemainingWithinDuration ==
  \A c \in DOMAIN rooms :
    0 <= rooms[c].remainingMs /\ rooms[c].remainingMs <= rooms[c].durationMs

\* what C6 says a finished game keeps: the phase, the timer, the scores, the
\* lock fields and the lockout sets
Frozen(room) ==
  [ phase |-> room.phase,
    timerRunning |-> room.timerRunning,
    scores |-> [t \in DOMAIN room.teams |-> room.teams[t].score],
    lockedBySocketId |-> room.lockedBySocketId,
    lockedByTeamId |-> room.lockedByTeamId,
    lockedByPlayerId |-> room.lockedByPlayerId,
    lockedOutTeams |-> room.lockedOutTeams,
    falseStartTeams |-> room.falseStartTeams,
    focusLockedTeams |-> room.focusLockedTeams ]

\* C6: while gameOver = true no transition occurs: whatever command, event or
\* tick runs, phase stays lobby, timerRunning stays false and the scores, the
\* lock fields and the lockout sets of the room are unchanged.
C6_GameOverFreezes ==
  [][\A c \in DOMAIN rooms :
       rooms[c].gameOver =>
         /\ rooms'[c].phase = "lobby"
         /\ ~rooms'[c].timerRunning
         /\ Frozen(rooms'[c]) = Frozen(rooms[c])]_vars

\* C7: gameOver is terminal: once gameOver = true it stays true and
\* winnerTeamId and winnerText keep their values, whatever follows.
C7_GameOverTerminal ==
  [][\A c \in DOMAIN rooms :
       rooms[c].gameOver =>
         /\ rooms'[c].gameOver
         /\ rooms'[c].winnerTeamId = rooms[c].winnerTeamId
         /\ rooms'[c].winnerText = rooms[c].winnerText]_vars

(* ------------------------------- buzzing ------------------------------ *)

\* the session s is of the player who owns the team it plays for
OwnsTeam(room, s) ==
  /\ sockets[s].playerId # ""
  /\ sockets[s].teamId \in DOMAIN room.teams
  /\ Get(room.playerTeams, sockets[s].playerId, <<>>) = sockets[s].teamId

\* the team may answer: not locked out, and not focus-locked under fair play
EligibleTeam(room, t) ==
  /\ t \notin room.lockedOutTeams
  /\ ~(room.fairPlayEnabled /\ t \in room.focusLockedTeams)

BuzzedEvents(events) ==
  SelectSeq(events, LAMBDA e : "ev" \in DOMAIN e /\ e.ev = "buzzed")

\* C1: first-buzz-wins.  A buzz processed while the room is armed (time
\* remaining) from the owner of an eligible team is accepted: phase becomes
\* locked, lockedByTeamId is that team, the timer is paused and exactly one
\* buzzed event is broadcast.  A buzz processed while the room is locked, that
\* is after the accepted one and before the host acts, is rejected with
\* NOT_ARMED and changes nothing of the room but lastActivityAt.  So of the
\* buzzes of one question exactly the first processed is accepted.
C1_FirstBuzzWins ==
  [][\A s \in SocketIds :
       (/\ sockets[s].roomCode \in DOMAIN rooms
        /\ OwnsTeam(RoomOf(s), s)
        /\ buzz(s))
       =>
       LET room == RoomOf(s)
           after == rooms'[room.roomCode]
           t == sockets[s].teamId
       IN
       /\ (room.phase = "armed" /\ room.remainingMs > 0 /\ EligibleTeam(room, t)) =>
            /\ after.phase = "locked"
            /\ after.lockedByTeamId = t
            /\ ~after.timerRunning
            /\ BuzzedEvents(out') =
                 <<ToRoom(room.roomCode, "buzzed", [teamId |-> t, roomCode |-> room.roomCode])>>
       /\ room.phase = "locked" =>
            /\ out' = <<BuzzRejected(s, "NOT_ARMED")>>
            /\ [after EXCEPT !.lastActivityAt = room.lastActivityAt] = room]_vars

\* the owner of the other team has buzzed after the accepted buzz and was
\* answered NOT_ARMED
C1_Witness ==
  \E s \in SocketIds :
    /\ sockets[s].roomCode \in DOMAIN rooms
    /\ OwnsTeam(RoomOf(s), s)
    /\ RoomOf(s).phase = "locked"
    /\ RoomOf(s).lockedByTeamId # sockets[s].teamId
    /\ EligibleTeam(RoomOf(s), sockets[s].teamId)
    /\ out = <<BuzzRejected(s, "NOT_ARMED")>>

(* ---------------------------- host authority -------------------------- *)

\* a host-only command of the session s
HostCommand(s, I) ==
  \/ \E count \in I.counts : hostSetTeamCount(s, count)
  \/ \E us \in I.seconds : hostSetDuration(s, us)
  \/ hostNextRound(s)
  \/ hostBeepStart(s)
  \/ hostPauseTimer(s)
  \/ hostIncorrect(s)
  \/ hostCorrect(s)
  \/ \E teamId \in I.teamIds, delta \in I.deltas : hostAdjustScore(s, teamId, delta)
  \/ \E enabled \in I.enabled : hostSetFairPlay(s, enabled)
  \/ \E teamId \in I.teamIds : hostUnblockFocus(s, teamId)
  \/ \E teamId \in I.teamIds : hostRemoveTeam(s, teamId)
  \/ hostEndRound(s)

\* the round state, the teams and the scores of a room
RoundState(room) == [room EXCEPT !.lastActivityAt = -1, !.membersCount = 0]

\* C2: host authority is per room.  No session of SpecRooms ever presents the
\* hostKey of WXYZ, so every host-only command sent by a session whose room is
\* WXYZ is answered with errorMsg "Host only." and leaves the round state,
\* the teams and the scores of WXYZ unchanged.
C2_HostAuthorityPerRoom ==
  [][\A s \in SocketIds :
       (sockets[s].roomCode = RoomW /\ HostCommand(s, Visitor)) =>
         /\ out' = <<ErrorMsg(s, "Host only.")>>
         /\ RoundState(rooms'[RoomW]) = RoundState(rooms[RoomW])]_vars

(* ------------------------------ ownership ----------------------------- *)

\* C8: the ownership maps are mutually inverse in every reachable state:
\* playerTeams[p] = t if and only if teamTaken[t] = p, and a player in
\* kickedPlayers appears in neither map.
C8_OwnershipInverse ==
  \A c \in DOMAIN rooms :
    LET room == rooms[c] IN
    /\ \A p \in DOMAIN room.playerTeams :
         Get(room.teamTaken, room.playerTeams[p], "") = p
    /\ \A t \in DOMAIN room.teamTaken :
         Get(room.playerTeams, room.teamTaken[t], <<>>) = t
    /\ \A p \in room.kickedPlayers :
         /\ p \notin DOMAIN room.playerTeams
         /\ \A t \in DOMAIN room.teamTaken : room.teamTaken[t] # p

\* p1 was removed with its team, and p2 owns that team now
C8_Witness ==
  /\ rooms[RoomA].kickedPlayers = {"p1"}
  /\ Get(rooms[RoomA].teamTaken, TeamId(1), "") = "p2"
  /\ Get(rooms[RoomA].playerTeams, "p2", <<>>) = TeamId(1)

\* a step of a room keeps the team of p, or hostRemoveTeam of that team takes
\* it away and p is in kickedPlayers afterwards
BindingKept(room, after, p) ==
  IF p \in DOMAIN after.playerTeams
    THEN after.playerTeams[p] = room.playerTeams[p]
    ELSE /\ p \in after.kickedPlayers
         /\ \E s \in SocketIds, teamId \in Crowd.teamIds :
              /\ trim(teamId) = room.playerTeams[p]
              /\ hostRemoveTeam(s, teamId)

\* the setTeam of session s for a valid team changes neither ownership map
\* and answers teamSet with the team p has
SetTeamIgnored(s, teamId, room, after, p) ==
  (/\ sockets[s].roomCode = room.roomCode
   /\ sockets[s].playerId = p
   /\ trim(teamId) \in DOMAIN room.teams
   /\ setTeam(s, teamId))
  =>
  /\ after.playerTeams = room.playerTeams
  /\ after.teamTaken = room.teamTaken
  /\ out' = <<TeamSet(s, room.playerTeams[p])>>

\* C9: a player's team binding is immutable.  Once playerTeams[p] is set it
\* never changes to another team; it disappears only through hostRemoveTeam of
\* that team, after which p is in kickedPlayers; and a later setTeam from a
\* session of p that is not a host session, with the same or a different valid
\* team, leaves playerTeams and teamTaken unchanged and answers teamSet with
\* the team first assigned.
C9_BindingImmutable ==
  [][\A c \in DOMAIN rooms : \A p \in DOMAIN rooms[c].playerTeams :
       /\ BindingKept(rooms[c], rooms'[c], p)
       /\ \A s \in SocketIds, teamId \in Crowd.teamIds :
            ~sockets[s].isHost => SetTeamIgnored(s, teamId, rooms[c], rooms'[c], p)]_vars

\* a session of p asked for the other team and was answered with its own
C9_Witness ==
  \E s \in SocketIds :
    /\ sockets[s].roomCode = RoomA
    /\ sockets[s].playerId \in DOMAIN rooms[RoomA].playerTeams
    /\ out = <<TeamSet(s, rooms[RoomA].playerTeams[sockets[s].playerId])>>
    /\ Cardinality(DOMAIN rooms[RoomA].teamTaken) = 1

\* C9 as the specification words it: every later setTeam from p, whatever the
\* session that sends it, is answered with teamSet.
C9_AnySession ==
  [][\A c \in DOMAIN rooms : \A p \in DOMAIN rooms[c].playerTeams :
       /\ BindingKept(rooms[c], rooms'[c], p)
       /\ \A s \in SocketIds, teamId \in Crowd.teamIds :
            SetTeamIgnored(s, teamId, rooms[c], rooms'[c], p)]_vars

RoomStates(events) ==
  SelectSeq(events, LAMBDA e : "ev" \in DOMAIN e /\ e.ev = "roomState")

\* the session s presents playerId to the room `roomCode`
Presents(s, roomCode, playerId) ==
  \/ rejoinRoom(s, roomCode, playerId)
  \/ \E hostKey \in Crowd.keys[s] : joinRoom(s, roomCode, hostKey, playerId)

\* C10: a kicked player cannot rejoin.  Once p is in kickedPlayers of a room, a
\* session presenting p through joinRoom or rejoinRoom is not attached to the
\* room: its subscription does not change, it is sent no roomState and
\* membersCount does not change.
C10_KickedCannotRejoin ==
  [][\A s \in SocketIds, roomCode \in Crowd.codes : \A playerId \in Crowd.pids[s] :
       LET code == toUpperCase(trim(roomCode)) IN
       (/\ code \in DOMAIN rooms
        /\ playerId \in rooms[code].kickedPlayers
        /\ Presents(s, roomCode, playerId))
       =>
       /\ sockets'[s].joined = sockets[s].joined
       /\ RoomStates(out') = <<>>
       /\ rooms'[code].membersCount = rooms[code].membersCount]_vars

(* --------------------------- removed players -------------------------- *)

\* a command of the player page sent by the session s
PlayerCommand(s, I) ==
  \/ \E teamId \in I.teamIds : setTeam(s, teamId)
  \/ \E name \in I.names : setTeamName(s, name)
  \/ \E focused \in I.focused : playerFocus(s, focused)
  \/ buzz(s)
  \/ falseStartAttempt(s)

\* C11: a removed player is answered with kicked on join and on any
\* subsequent command.  Every joinRoom presenting a playerId that is in
\* kickedPlayers, and every setTeam, setTeamName, playerFocus, buzz and
\* falseStartAttempt from a session whose playerId is in kickedPlayers of its
\* room, emits kicked to that session and leaves the teams, the scores and the
\* round state of the room unchanged.
C11_KickedAnswered ==
  [][\A s \in SocketIds :
       /\ (/\ sockets[s].roomCode \in DOMAIN rooms
           /\ isKicked(s, RoomOf(s))
           /\ PlayerCommand(s, Game))
          =>
          /\ out' = <<Kicked(s, sockets[s].roomCode)>>
          /\ RoundState(rooms'[sockets[s].roomCode]) = RoundState(RoomOf(s))
       /\ \A roomCode \in Game.codes : \A hostKey \in Game.keys[s], playerId \in Game.pids[s] :
            LET code == toUpperCase(trim(roomCode)) IN
            (/\ code \in DOMAIN rooms
             /\ playerId \in rooms[code].kickedPlayers
             /\ joinRoom(s, roomCode, hostKey, playerId))
            =>
            /\ out' = <<Kicked(s, code)>>
            /\ RoundState(rooms'[code]) = RoundState(rooms[code])]_vars

(* ------------------------------- rounds ------------------------------- *)

\* the session s is a host session of the room c and the game is not over:
\* its gated host commands are accepted
HostAccepted(s, c) ==
  /\ sockets[s].connected
  /\ sockets[s].roomCode = c
  /\ sockets[s].isHost
  /\ ~rooms[c].gameOver

\* C12: roundNumber never decreases: it changes only by +1, on an accepted
\* hostNextRound or an accepted hostCorrect (phase locked), and every other
\* command, event and tick leaves it unchanged.
C12_RoundNumberCounts ==
  [][\A c \in DOMAIN rooms :
       \/ rooms'[c].roundNumber = rooms[c].roundNumber
       \/ /\ rooms'[c].roundNumber = rooms[c].roundNumber + 1
          /\ \E s \in SocketIds :
               /\ HostAccepted(s, c)
               /\ \/ hostNextRound(s)
                  \/ rooms[c].phase = "locked" /\ hostCorrect(s)]_vars

\* a round has been counted (roundNumber went from 0 to 1) and a team has a point
C12_Witness ==
  \E c \in DOMAIN rooms :
    /\ rooms[c].roundNumber = 1
    /\ \E t \in DOMAIN rooms[c].teams : rooms[c].teams[t].score = 1
    /\ rooms[c].phase = "lobby"

\* C13: in every reachable state lockedByTeamId, when not null, is not a
\* member of lockedOutTeams: a locked-out team is never the team recorded as
\* currently answering.
C13_LockerNotLockedOut ==
  \A c \in DOMAIN rooms :
    rooms[c].lockedByTeamId # <<>> => rooms[c].lockedByTeamId \notin rooms[c].lockedOutTeams

(* ------------------------------- rulings ------------------------------ *)

\* C14: hostIncorrect accepted in phase locked with answering team T leaves
\* the room armed with T in lockedOutTeams, lockedByTeamId and
\* lockedByPlayerId null and the timer running when remainingMs > 0; in the
\* room it leaves, the buzz of T's owner is rejected with TEAM_LOCKED_OUT and
\* the buzz of the owner of another eligible team is accepted.  Every buzz
\* processed in an armed room (time remaining) from the owner of a locked-out
\* team is answered buzzRejected TEAM_LOCKED_OUT.  In any other phase
\* hostIncorrect changes nothing of the room but lastActivityAt.
C14_IncorrectLocksOut ==
  [][/\ \A s \in SocketIds :
          (/\ sockets[s].roomCode \in DOMAIN rooms
           /\ HostAccepted(s, sockets[s].roomCode)
           /\ hostIncorrect(s))
          =>
          LET room == RoomOf(s)
              after == rooms'[room.roomCode]
              T == room.lockedByTeamId
          IN
          /\ (room.phase = "locked" /\ T # <<>>) =>
               /\ after.phase = "armed"
               /\ T \in after.lockedOutTeams
               /\ after.lockedByTeamId = <<>>
               /\ after.lockedByPlayerId = ""
               /\ after.remainingMs > 0 => after.timerRunning
               /\ \A p \in SocketIds :
                    (OwnsTeam(after, p) /\ ~isKicked(p, after) /\ after.remainingMs > 0) =>
                      /\ sockets[p].teamId = T =>
                           buzzRejection(after, sockets[p].playerId, T) = "TEAM_LOCKED_OUT"
                      /\ (sockets[p].teamId # T /\ EligibleTeam(after, sockets[p].teamId)) =>
                           buzzRejection(after, sockets[p].playerId, sockets[p].teamId) = ""
          /\ room.phase # "locked" =>
               /\ [after EXCEPT !.lastActivityAt = room.lastActivityAt] = room
               /\ out' = <<>>
     /\ \A p \in SocketIds :
          (/\ sockets[p].roomCode \in DOMAIN rooms
           /\ OwnsTeam(RoomOf(p), p)
           /\ ~isKicked(p, RoomOf(p))
           /\ RoomOf(p).phase = "armed"
           /\ RoomOf(p).remainingMs > 0
           /\ sockets[p].teamId \in RoomOf(p).lockedOutTeams
           /\ buzz(p))
          => out' = <<BuzzRejected(p, "TEAM_LOCKED_OUT")>>]_vars

\* after a ruling of incorrect (the team is locked out without a false
\* start) the owner of that team has buzzed in the re-armed room and was
\* answered TEAM_LOCKED_OUT
C14_Witness ==
  \E p \in SocketIds :
    /\ sockets[p].roomCode \in DOMAIN rooms
    /\ OwnsTeam(RoomOf(p), p)
    /\ RoomOf(p).phase = "armed"
    /\ RoomOf(p).timerRunning
    /\ sockets[p].teamId \in RoomOf(p).lockedOutTeams \ RoomOf(p).falseStartTeams
    /\ out = <<BuzzRejected(p, "TEAM_LOCKED_OUT")>>

\* C15: a buzz from the owner of a team that is in lockedOutTeams never
\* changes state, in any phase: the room is unchanged but for lastActivityAt
\* (so phase, timer fields, lock fields, lastBuzz, firstBuzzTeamId, the
\* lockout sets and the scores are unchanged), the sessions are unchanged and
\* no buzzed event is broadcast.
C15_LockedOutBuzzInert ==
  [][\A s \in SocketIds :
       (/\ sockets[s].roomCode \in DOMAIN rooms
        /\ OwnsTeam(RoomOf(s), s)
        /\ sockets[s].teamId \in RoomOf(s).lockedOutTeams
        /\ buzz(s))
       =>
       LET room == RoomOf(s)
           after == rooms'[room.roomCode]
       IN
       /\ [after EXCEPT !.lastActivityAt = room.lastActivityAt] = room
       /\ sockets' = sockets
       /\ BuzzedEvents(out') = <<>>]_vars

\* the owner of a locked-out team has buzzed while another team was
\* answering (phase locked)
C15_Witness ==
  \E s \in SocketIds :
    /\ sockets[s].roomCode \in DOMAIN rooms
    /\ OwnsTeam(RoomOf(s), s)
    /\ sockets[s].teamId \in RoomOf(s).lockedOutTeams
    /\ RoomOf(s).phase = "locked"
    /\ out = <<BuzzRejected(s, "NOT_ARMED")>>

CorrectFxEvents(events) ==
  SelectSeq(events, LAMBDA e : "ev" \in DOMAIN e /\ e.ev = "correctFx")

\* C16: hostCorrect accepted in phase locked with answering team T raises
\* T's score by exactly 1 and leaves every other team's score unchanged,
\* raises roundNumber by 1, broadcasts correctFx{teamId: T} and leaves the room
\* in phase lobby with the timer stopped and the lock fields cleared.  In any
\* other phase hostCorrect changes no score and no round state (nothing of the
\* room but lastActivityAt) and emits nothing.
C16_CorrectScores ==
  [][\A s \in SocketIds :
       (/\ sockets[s].roomCode \in DOMAIN rooms
        /\ HostAccepted(s, sockets[s].roomCode)
        /\ hostCorrect(s))
       =>
       LET room == RoomOf(s)
           after == rooms'[room.roomCode]
           T == room.lockedByTeamId
       IN
       /\ (room.phase = "locked" /\ T # <<>>) =>
            /\ DOMAIN after.teams = DOMAIN room.teams
            /\ T \in DOMAIN room.teams
            /\ after.teams[T].score = room.teams[T].score + 1
            /\ \A t \in DOMAIN room.teams \ {T} : after.teams[t].score = room.teams[t].score
            /\ after.roundNumber = room.roundNumber + 1
            /\ CorrectFxEvents(out') = <<ToRoom(room.roomCode, "correctFx", [teamId |-> T])>>
            /\ after.phase = "lobby"
            /\ ~after.timerRunning
            /\ after.lockedByTeamId = <<>>
            /\ after.lockedByPlayerId = ""
            /\ after.lockedBySocketId = ""
       /\ room.phase # "locked" =>
            /\ [after EXCEPT !.lastActivityAt = room.lastActivityAt] = room
            /\ out' = <<>>]_vars

\* the answer of team 2 has been ruled correct: team 2 has the only point,
\* the round is counted and the room is back in the lobby, correctFx emitted
C16_Witness ==
  \E c \in DOMAIN rooms :
    /\ rooms[c].phase = "lobby"
    /\ rooms[c].roundNumber = 1
    /\ rooms[c].teams[TeamId(2)].score = 1
    /\ rooms[c].teams[TeamId(1)].score = 0
    /\ CorrectFxEvents(out) = <<ToRoom(c, "correctFx", [teamId |-> TeamId(2)])>>

(* -------------------------------- expiry ------------------------------ *)

TimeUpEvents(events) ==
  SelectSeq(events, LAMBDA e : "ev" \in DOMAIN e /\ e.ev = "timeUp")

\* what C17 asks of the room c over a step of the timer callback: the room
\* has timed out and timeUp and a roomState showing the lobby were broadcast
TimedOut(c) ==
  LET room == rooms[c]
      after == rooms'[c]
  IN
  /\ after.remainingMs = 0
  /\ ~after.timerRunning
  /\ after.timeUpAt # -1
  /\ after.phase = "lobby"
  /\ after.lockedBySocketId = ""
  /\ after.lockedByTeamId = <<>>
  /\ after.lockedByPlayerId = ""
  /\ after.lockedOutTeams = {}
  /\ after.falseStartTeams = {}
  /\ after.focusLockedTeams = {}
  /\ \A t \in DOMAIN room.teams : after.teams[t].score = room.teams[t].score
  /\ out' = <<ToRoom(c, "timeUp", <<>>), emitRoomState(after)>>
  /\ publicRoomState(after).phase = "lobby"

\* C17: time-up transition.  A tick on an armed room with the timer running
\* whose elapsed wall-clock delta (now - timerLastTickAt) is at least
\* remainingMs sets remainingMs to 0 and in the same step stops the timer,
\* sets timeUpAt, moves the room to lobby with lock fields and lockout sets
\* cleared, changes no score, and broadcasts timeUp together with a roomState
\* showing phase lobby.
C17_TimeUpTransition ==
  [][\A d \in Clock.ticks :
       Tick(d) =>
         \A c \in DOMAIN rooms :
           (/\ rooms[c].phase = "armed"
            /\ rooms[c].timerRunning
            /\ now' - rooms[c].timerLastTickAt >= rooms[c].remainingMs)
           => TimedOut(c)]_vars

\* C18: liveness of expiry.  If a room is armed with timerRunning = true and
\* no further client command arrives (the clients are silent from QuietAt
\* on), then, the timer callback firing fairly with an advancing clock, the
\* room eventually emits timeUp and is in phase lobby with timerRunning =
\* false: a round cannot stay armed forever.
C18_ExpiryLive ==
  (/\ now >= QuietAt
   /\ rooms[RoomA].phase = "armed"
   /\ rooms[RoomA].timerRunning)
  ~> (/\ rooms[RoomA].phase = "lobby"
      /\ ~rooms[RoomA].timerRunning
      /\ TimeUpEvents(out) = <<ToRoom(RoomA, "timeUp", <<>>)>>)

\* after the clients fell silent the round has timed out: timeUp was
\* emitted and the room is in the lobby
C18_Witness ==
  /\ now > QuietAt
  /\ rooms[RoomA].phase = "lobby"
  /\ ~rooms[RoomA].timerRunning
  /\ rooms[RoomA].timeUpAt = now
  /\ TimeUpEvents(out) = <<ToRoom(RoomA, "timeUp", <<>>)>>

(* ------------------------------ disconnect ---------------------------- *)

\* C19: disconnect is inert for the round.  A disconnect of any session,
\* the session of the lock-holding player while phase = locked included,
\* changes only membersCount of its room: phase, timerRunning, remainingMs,
\* lockedByPlayerId, lockedByTeamId, the lockout sets, the scores and every
\* other field are unchanged, so a locked room stays locked with the timer
\* paused.
C19_DisconnectInert ==
  [][\A s \in SocketIds :
       (sockets[s].roomCode \in DOMAIN rooms /\ disconnect(s)) =>
         LET room == RoomOf(s)
             after == rooms'[room.roomCode]
         IN
         /\ [after EXCEPT !.membersCount = room.membersCount] = room
         /\ after.membersCount = IF room.membersCount > 0 THEN room.membersCount - 1 ELSE 0
         /\ room.phase = "locked" => after.phase = "locked" /\ ~after.timerRunning]_vars

\* the session of the answering player has gone and the room is still
\* locked in that player's name, the timer paused
C19_Witness ==
  \E s \in SocketIds, c \in DOMAIN rooms :
    /\ ~sockets[s].connected
    /\ rooms[c].phase = "locked"
    /\ rooms[c].lockedByPlayerId = Seated(s).playerId
    /\ rooms[c].lockedByTeamId = Seated(s).teamId
    /\ ~rooms[c].timerRunning
    /\ rooms[c].membersCount = 2

(* ------------------------------- lockouts ----------------------------- *)

\* C20: team lockout is per round and cleared on hostBeepStart.  Immediately
\* after every accepted hostBeepStart, from any phase and after any history
\* (earlier false starts and incorrect answers included), lockedOutTeams is
\* empty.
C20_BeepClearsLockouts ==
  [][\A s \in SocketIds :
       (/\ sockets[s].roomCode \in DOMAIN rooms
        /\ HostAccepted(s, sockets[s].roomCode)
        /\ hostBeepStart(s))
       => rooms'[sockets[s].roomCode].lockedOutTeams = {}]_vars

(* ------------------------------- removal ------------------------------ *)

\* the teamId payloads the clients send
TeamInputs == Game.teamIds \cup Crowd.teamIds \cup Visitor.teamIds

\* C21: hostRemoveTeam(t) accepted for an existing team t with owner p:
\* afterwards teamTaken has no entry for t, playerTeams has no entry for p, p
\* is in kickedPlayers, every session of p in the room receives kicked, team
\* t has its default name and score 0 and is in none of the lockout sets; if
\* t was the answering team of a locked room, the room is armed with the lock
\* fields cleared and the timer running when remainingMs > 0.  The names,
\* scores and owners of the other teams are unchanged.
C21_RemoveTeam ==
  [][\A s \in SocketIds, teamId \in TeamInputs :
       (/\ requireRoomError(s) = ""
        /\ isHost(s)
        /\ trim(teamId) \in DOMAIN RoomOf(s).teams
        /\ Get(RoomOf(s).teamTaken, trim(teamId), "") # ""
        /\ hostRemoveTeam(s, teamId))
       =>
       LET room == RoomOf(s)
           after == rooms'[room.roomCode]
           t == trim(teamId)
           p == Get(room.teamTaken, t, "")
       IN
       /\ t \notin DOMAIN after.teamTaken
       /\ p \notin DOMAIN after.playerTeams
       /\ p \in after.kickedPlayers
       /\ \A x \in SocketIds :
            (sockets[x].connected /\ sockets[x].roomCode = room.roomCode
               /\ sockets[x].playerId = p)
            => /\ Len(SelectSeq(out', LAMBDA e : e = Kicked(x, room.roomCode))) = 1
               /\ sockets'[x].teamId = <<>>
       /\ after.teams[t].name = DefaultName(t)
       /\ after.teams[t].score = 0
       /\ t \notin after.lockedOutTeams \cup after.falseStartTeams \cup after.focusLockedTeams
       /\ (room.phase = "locked" /\ room.lockedByTeamId = t) =>
            /\ after.phase = "armed"
            /\ after.lockedByTeamId = <<>>
            /\ after.lockedByPlayerId = ""
            /\ after.lockedBySocketId = ""
            /\ after.remainingMs = room.remainingMs
            /\ after.remainingMs > 0 => after.timerRunning
       /\ DOMAIN after.teams = DOMAIN room.teams
       /\ \A u \in DOMAIN room.teams \ {t} :
            /\ after.teams[u] = room.teams[u]
            /\ Get(after.teamTaken, u, "") = Get(room.teamTaken, u, "")
       /\ \A q \in DOMAIN room.playerTeams \ {p} :
            Get(after.playerTeams, q, <<>>) = room.playerTeams[q]]_vars

\* the team that was answering has been removed: its owner is kicked and
\* was told so, and the room is armed again with the clock running
C21_Witness ==
  \E c \in DOMAIN rooms :
    /\ rooms[c].phase = "armed"
    /\ rooms[c].timerRunning
    /\ rooms[c].firstBuzzTeamId = TeamId(1)
    /\ TeamId(1) \notin DOMAIN rooms[c].teamTaken
    /\ "p1" \in rooms[c].kickedPlayers
    /\ out = <<Kicked(2, c), emitRoomState(rooms[c])>>

(* ------------------------------ room view ----------------------------- *)

\* the roomState events of `events` that were broadcast to the room c
Broadcasts(events, c) ==
  SelectSeq(events, LAMBDA e : "room" \in DOMAIN e /\ e.room = c /\ e.ev = "roomState")

\* C22: roomState is sent after every mutating transition.  Every completed
\* operation (client event, tick or disconnect) that changes a field of the
\* public view of a room has broadcast to the room's subscribers a roomState
\* and the last one it broadcast carries the view the operation left.
C22_ViewBroadcast ==
  [][\A c \in DOMAIN rooms :
       publicRoomState(rooms'[c]) # publicRoomState(rooms[c]) =>
         /\ Broadcasts(out', c) # <<>>
         /\ Broadcasts(out', c)[Len(Broadcasts(out', c))] = emitRoomState(rooms'[c])]_vars

(* ------------------------------- errors ------------------------------- *)

\* the event answers an invalid command of its sender
Refusal(e) ==
  /\ "to" \in DOMAIN e
  /\ e.ev \in {"errorMsg", "buzzRejected", "kicked"}

\* C23: no command is fatal.  No handler, whatever the state of the session
\* that sent the event (before any joinRoom, after joining), ends by an
\* exception, and an operation that emitted nothing but errorMsg,
\* buzzRejected or kicked answers left every room as it was (but for
\* lastActivityAt).
C23_NoCommandFatal ==
  [][/\ \A i \in 1..Len(out') : "thrown" \notin DOMAIN out'[i]
     /\ (out' # <<>> /\ \A i \in 1..Len(out') : Refusal(out'[i])) =>
          \A c \in DOMAIN rooms :
            [rooms'[c] EXCEPT !.lastActivityAt = rooms[c].lastActivityAt] = rooms[c]]_vars

(* ------------------------------ duration ------------------------------ *)

\* C24: in every reachable state durationMs is an integer in [1000, 600000]:
\* hostSetDuration, sent by the host of a game that is not over, accepts a
\* value only if the resulting durationMs lies in that range (0 seconds
\* rejected, 600 seconds accepted, above 600 rejected), and a rejected
\* hostSetDuration leaves durationMs and remainingMs unchanged.
C24_DurationRange ==
  [][\A s \in SocketIds, us \in Desk.seconds :
       (/\ sockets[s].roomCode \in DOMAIN rooms
        /\ HostAccepted(s, sockets[s].roomCode)
        /\ hostSetDuration(s, us))
       =>
       LET room == RoomOf(s)
           after == rooms'[room.roomCode]
           rejected == out' = <<ErrorMsg(s, "Duration must be 1..600 seconds.")>>
       IN
       /\ after.durationMs \in 1000..(MaxSeconds * 1000)
       /\ us = 0 => rejected
       /\ us = MaxSeconds * 1000000 => ~rejected /\ after.durationMs = MaxSeconds * 1000
       /\ us > MaxSeconds * 1000000 => rejected
       /\ rejected => /\ after.durationMs = room.durationMs
                      /\ after.remainingMs = room.remainingMs]_vars

(* ------------------------------ team names ---------------------------- *)

\* the name payloads the clients send
NameInputs == Game.names \cup Crowd.names

\* C25: a team's name is changed by setTeamName exactly once per team per
\* room lifetime.  An accepted setTeamName for team t records t in
\* teamNameLocked; the record of t is never taken back, whatever operation
\* follows (hostRemoveTeam(t) and a new player claiming t included); while t
\* is recorded, and whenever the sender does not own its team, setTeamName is
\* rejected with errorMsg and leaves every name unchanged.
C25_NamedOnce ==
  [][/\ \A c \in DOMAIN rooms :
          rooms[c].teamNameLocked \subseteq rooms'[c].teamNameLocked
     /\ \A s \in SocketIds, name \in NameInputs :
          (sockets[s].roomCode \in DOMAIN rooms /\ setTeamName(s, name)) =>
            LET room == RoomOf(s)
                after == rooms'[room.roomCode]
                t == sockets[s].teamId
            IN
            \/ /\ \A u \in DOMAIN room.teams : after.teams[u].name = room.teams[u].name
               /\ after.teamNameLocked = room.teamNameLocked
               /\ Len(out') = 1 /\ out'[1].ev = "errorMsg"
            \/ /\ t \in DOMAIN room.teams
               /\ t \notin room.teamNameLocked
               /\ OwnsTeam(room, s)
               /\ Get(room.teamTaken, t, "") = sockets[s].playerId
               /\ after.teamNameLocked = room.teamNameLocked \cup {t}
               /\ \A u \in DOMAIN room.teams \ {t} :
                    after.teams[u].name = room.teams[u].name]_vars

(* ----------------------------- false starts --------------------------- *)

\* C26: a lobby-phase buzz is a false start.  When phase = lobby and the
\* sender owns team T, a buzz has the effect of falseStartAttempt: T is added
\* to lockedOutTeams and to falseStartTeams, phase stays lobby and roomState
\* is broadcast.
C26_LobbyBuzzFalseStart ==
  [][\A s \in SocketIds :
       (/\ sockets[s].roomCode \in DOMAIN rooms
        /\ OwnsTeam(RoomOf(s), s)
        /\ ~isKicked(s, RoomOf(s))
        /\ RoomOf(s).phase = "lobby"
        /\ buzz(s))
       =>
       LET room == RoomOf(s)
           after == rooms'[room.roomCode]
           T == sockets[s].teamId
       IN
       /\ after = falseStart(touchRoom(room), T)
       /\ after.lockedOutTeams = room.lockedOutTeams \cup {T}
       /\ after.falseStartTeams = room.falseStartTeams \cup {T}
       /\ after.phase = "lobby"
       /\ out' = <<emitRoomState(after)>>]_vars

\* C27: in every reachable state falseStartTeams is a subset of
\* lockedOutTeams, after any sequence of falseStartAttempt, hostPauseTimer,
\* hostBeepStart, hostIncorrect, hostRemoveTeam and round resets.
C27_FalseStartsLockedOut ==
  \A c \in DOMAIN rooms : rooms[c].falseStartTeams \subseteq rooms[c].lockedOutTeams

(* -------------------------------- scores ------------------------------ *)

\* the delta payloads the clients send
DeltaInputs == Game.deltas \cup Crowd.deltas \cup Visitor.deltas

\* C28: scores are controlled by the host only.  Over every step (player
\* events, join, rejoin, disconnect, timer ticks with the time-up transition,
\* host commands) the score of a team changes only by an accepted hostCorrect
\* (+1 to the answering team), an accepted hostAdjustScore (an integer delta
\* with |delta| <= 100 to the named team) or a hostRemoveTeam of that team
\* sent by the host (reset to 0).
C28_HostOnlyScores ==
  [][\A c \in DOMAIN rooms : \A t \in DOMAIN rooms[c].teams :
       /\ t \in DOMAIN rooms'[c].teams
       /\ \/ rooms'[c].teams[t].score = rooms[c].teams[t].score
          \/ \E s \in SocketIds :
               /\ HostAccepted(s, c)
               /\ rooms[c].phase = "locked"
               /\ rooms[c].lockedByTeamId = t
               /\ rooms'[c].teams[t].score = rooms[c].teams[t].score + 1
               /\ hostCorrect(s)
          \/ \E s \in SocketIds, teamId \in TeamInputs, delta \in DeltaInputs :
               /\ HostAccepted(s, c)
               /\ trim(teamId) = t
               /\ delta \in -MaxDelta..MaxDelta
               /\ rooms'[c].teams[t].score = rooms[c].teams[t].score + delta
               /\ hostAdjustScore(s, teamId, delta)
          \/ \E s \in SocketIds, teamId \in TeamInputs :
               /\ sockets[s].connected /\ sockets[s].roomCode = c /\ isHost(s)
               /\ trim(teamId) = t
               /\ rooms'[c].teams[t].score = 0
               /\ hostRemoveTeam(s, teamId)]_vars

\* the time of a round ran out while a team had a point, and the point is
\* still there
C28_Witness ==
  \E c \in DOMAIN rooms :
    /\ rooms[c].timeUpAt = now
    /\ rooms[c].phase = "lobby"
    /\ rooms[c].remainingMs = 0
    /\ \E t \in DOMAIN rooms[c].teams : rooms[c].teams[t].score = 1

(* -------------------------------- reaper ------------------------------ *)

\* what C29 lets a sweep at instant t delete
Reapable(room, t) ==
  \/ t - room.lastActivityAt > ROOM_TTL
  \/ room.membersCount = 0 /\ t - room.lastActivityAt > EMPTY_GRACE_MS

\* C29: the reaper deletes a room at a sweep if and only if idleMs = now -
\* lastActivityAt exceeds 30 minutes, or membersCount = 0 and idleMs exceeds
\* 2 minutes; a room that does not meet this condition is never removed from
\* the registry, by any operation, and a room whose timer is running is
\* never deleted.
C29_ReaperRule ==
  [][/\ \A d \in Vigil.sweeps :
          reaper(d) =>
            \A c \in DOMAIN rooms : c \notin DOMAIN rooms' <=> Reapable(rooms[c], now')
     /\ \A c \in DOMAIN rooms :
          c \notin DOMAIN rooms' =>
            /\ Reapable(rooms[c], now')
            /\ ~rooms[c].timerRunning]_vars

\* ABCD was deleted under its host, who is still connected, by the 30
\* minute rule, while WXYZ, empty but touched by nobody, went by the 2
\* minute rule
C29_Witness ==
  /\ DOMAIN rooms = {}
  /\ sockets[1].connected
  /\ sockets[1].roomCode = RoomA
  /\ sockets[1].joined = RoomA

(* ------------------------------- game over ---------------------------- *)

\* the teams no team outscores
TopTeams(room) ==
  {t \in DOMAIN room.teams : \A u \in DOMAIN room.teams : room.teams[u].score <= room.teams[t].score}

\* C30: hostEndRound by the host of a room that is not game over leaves
\* gameOver = true, phase = lobby and timerRunning = false; if exactly one
\* team has the maximum score, winnerTeamId is that team's id (and winnerText
\* names it), otherwise winnerTeamId is null and winnerText lists, in team
\* order, exactly the teams that share the maximum score.
C30_EndRoundWinner ==
  [][\A s \in SocketIds :
       (/\ sockets[s].roomCode \in DOMAIN rooms
        /\ HostAccepted(s, sockets[s].roomCode)
        /\ hostEndRound(s))
       =>
       LET room == RoomOf(s)
           after == rooms'[room.roomCode]
           top == TopTeams(room)
       IN
       /\ after.gameOver
       /\ after.phase = "lobby"
       /\ ~after.timerRunning
       /\ after.teams = room.teams
       /\ Cardinality(top) = 1 =>
            /\ after.winnerTeamId \in top
            /\ after.winnerText = wonText(room.teams[after.winnerTeamId].name)
       /\ Cardinality(top) # 1 =>
            /\ after.winnerTeamId = <<>>
            /\ after.winnerText =
                 tieText(joinNames(room, SelectSeq(TeamOrder(room), LAMBDA t : t \in top)))]_vars

\* the game ended with team 2 alone in the lead
C30_Witness ==
  \E c \in DOMAIN rooms :
    /\ rooms[c].gameOver
    /\ rooms[c].phase = "lobby"
    /\ rooms[c].teams[TeamId(1)].score = 0
    /\ rooms[c].teams[TeamId(2)].score = 1
    /\ rooms[c].winnerTeamId = TeamId(2)

(* ----------------------------- armed rooms ---------------------------- *)

\* C31: whenever phase = armed the timer is running: in every reachable
\* state phase = armed implies timerRunning = true.
C31_ArmedRuns ==
  \A c \in DOMAIN rooms : rooms[c].phase = "armed" => rooms[c].timerRunning

(* ----------------------------- focus locks ---------------------------- *)

\* the room but for its activity stamp
Untimed(room) == [room EXCEPT !.lastActivityAt = -1]

\* C32: focus lock.  playerFocus{focused: false} from the owner of team T adds
\* T to focusLockedTeams exactly when fairPlayEnabled and phase is armed or
\* locked, and otherwise changes nothing of the room but lastActivityAt; while
\* T is in focusLockedTeams and fairPlayEnabled, a buzz by T's owner in an
\* armed room with time left and T not locked out is rejected with
\* FOCUS_LOCKED and changes nothing; hostUnblockFocus(T) from the host removes
\* T from focusLockedTeams and nothing else; and in every state with
\* fairPlayEnabled = false, focusLockedTeams is empty.
C32_FocusLock ==
  /\ [](\A c \in DOMAIN rooms : ~rooms[c].fairPlayEnabled => rooms[c].focusLockedTeams = {})
  /\ [][\A s \in SocketIds :
          sockets[s].roomCode \in DOMAIN rooms =>
            LET room == RoomOf(s)
                after == rooms'[room.roomCode]
                T == sockets[s].teamId
            IN
            /\ (OwnsTeam(room, s) /\ playerFocus(s, FALSE)) =>
                 /\ Untimed(after) =
                      Untimed(IF room.fairPlayEnabled /\ room.phase \in {"armed", "locked"}
                                THEN [room EXCEPT !.focusLockedTeams = @ \cup {T}]
                                ELSE room)
                 /\ sockets' = sockets
            /\ (/\ OwnsTeam(room, s)
                /\ room.fairPlayEnabled
                /\ T \in room.focusLockedTeams
                /\ room.phase = "armed"
                /\ room.remainingMs > 0
                /\ T \notin room.lockedOutTeams
                /\ buzz(s)) =>
                 /\ out' = <<BuzzRejected(s, "FOCUS_LOCKED")>>
                 /\ Untimed(after) = Untimed(room)
                 /\ sockets' = sockets
            /\ \A teamId \in FairPlay.teamIds :
                 (sockets[s].connected /\ sockets[s].isHost /\ hostUnblockFocus(s, teamId)) =>
                   /\ Untimed(after) =
                        Untimed([room EXCEPT !.focusLockedTeams = @ \ {trim(teamId)}])
                   /\ sockets' = sockets]_vars

\* the owner of team 1 lost focus while team 2 was answering, the host ruled
\* incorrect, and team 1's buzz in the armed room was rejected
C32_Witness ==
  /\ OwnsTeam(rooms[RoomA], 2)
  /\ rooms[RoomA].fairPlayEnabled
  /\ rooms[RoomA].phase = "armed"
  /\ rooms[RoomA].focusLockedTeams = {TeamId(1)}
  /\ rooms[RoomA].lockedOutTeams = {TeamId(2)}
  /\ out = <<BuzzRejected(2, "FOCUS_LOCKED")>>

(* ------------------------------- pausing ------------------------------ *)

\* C33: hostPauseTimer by the host of a room that is not game over ends the
\* round: afterwards phase = lobby, timerRunning = false, remainingMs =
\* durationMs, lockedByTeamId, lockedByPlayerId, lastBuzz and firstBuzzTeamId
\* are null and lockedOutTeams is empty; the room is never left armed with a
\* stopped timer.
C33_PauseEndsRound ==
  [][\A s \in SocketIds :
       (/\ sockets[s].roomCode \in DOMAIN rooms
        /\ HostAccepted(s, sockets[s].roomCode)
        /\ hostPauseTimer(s))
       =>
       LET after == rooms'[sockets[s].roomCode] IN
       /\ after.phase = "lobby"
       /\ ~after.timerRunning
       /\ after.remainingMs = after.durationMs
       /\ after.durationMs = RoomOf(s).durationMs
       /\ after.lockedByTeamId = <<>>
       /\ after.lockedByPlayerId = ""
       /\ after.lastBuzz = <<>>
       /\ after.firstBuzzTeamId = <<>>
       /\ after.lockedOutTeams = {}]_vars

\* the host has paused a round of 0.5 s in which team 1 had jumped the beep:
\* only hostPauseTimer empties lockedOutTeams and keeps falseStartTeams
C33_Witness ==
  /\ rooms[RoomA].phase = "lobby"
  /\ ~rooms[RoomA].timerRunning
  /\ rooms[RoomA].durationMs = 500
  /\ rooms[RoomA].remainingMs = 500
  /\ rooms[RoomA].lockedOutTeams = {}
  /\ rooms[RoomA].falseStartTeams = {TeamId(1)}
  /\ out = <<emitRoomState(rooms[RoomA])>>

(* ---------------------------- frozen clock ---------------------------- *)

\* C34: the clock is frozen for the answering team: every step that starts
\* and ends in phase locked (a tick, a player event, a disconnect, or
\* hostSetDuration, hostSetTeamCount, hostAdjustScore, hostSetFairPlay) leaves
\* remainingMs unchanged, and hostIncorrect leaves it unchanged too, so that the
\* timer resumes from the value it had when the buzz was accepted.
C34_ClockFrozen ==
  [][\A c \in DOMAIN rooms :
       (rooms[c].phase = "locked" /\ c \in DOMAIN rooms') =>
         /\ rooms'[c].phase = "locked" => rooms'[c].remainingMs = rooms[c].remainingMs
         /\ (\E s \in SocketIds : HostAccepted(s, c) /\ hostIncorrect(s)) =>
              rooms'[c].remainingMs = rooms[c].remainingMs]_vars

(* ---------------------------- lock identity --------------------------- *)

\* C35: the lock identity exists only while a team is answering: in every
\* reachable state with phase # locked, lockedByTeamId and lockedByPlayerId
\* are both null.
C35_LockOnlyWhileLocked ==
  \A c \in DOMAIN rooms :
    rooms[c].phase # "locked" =>
      rooms[c].lockedByTeamId = <<>> /\ rooms[c].lockedByPlayerId = ""

(* --------------------------- the sender's team ------------------------ *)

\* the teams a step adds to one of the three lockout sets of a room
AddedTeams(before, after) ==
  (after.lockedOutTeams \ before.lockedOutTeams)
    \cup (after.falseStartTeams \ before.falseStartTeams)
    \cup (after.focusLockedTeams \ before.focusLockedTeams)

\* C36: player events act only on the sender's own team: when
\* falseStartAttempt or playerFocus from session s adds a team T to
\* lockedOutTeams, falseStartTeams or focusLockedTeams of a room r, then r is
\* the room of s, T is a team of r and r.playerTeams[s.playerId] = T.
C36_OwnTeamOnly ==
  [][\A s \in SocketIds :
       (falseStartAttempt(s) \/ \E focused \in Roaming.focused : playerFocus(s, focused)) =>
         \A c \in DOMAIN rooms :
           \A T \in AddedTeams(rooms[c], rooms'[c]) :
             /\ sockets[s].roomCode = c
             /\ T \in DOMAIN rooms[c].teams
             /\ Get(rooms[c].playerTeams, sockets[s].playerId, <<>>) = T]_vars

(* ------------------------------- members ------------------------------ *)

\* the connected sessions whose room is c
Attached(c) == {s \in SocketIds : sockets[s].connected /\ sockets[s].roomCode = c}

\* C37: in every reachable state a room's membersCount equals the number of
\* connected sessions attached to that room; in particular it is 0 exactly
\* when no session is attached.
C37_MembersCounted ==
  \A c \in DOMAIN rooms : rooms[c].membersCount = Cardinality(Attached(c))

====
